---- MODULE Spec2Model ----
(***************************************************************************)
(* A model of the rewrite-and-publish engine of the Terminal-User-Interface*)
(* repository: version parsing, the lossless dependency rewriter, the      *)
(* library-upgrade scan with its per-repository git workflow               *)
(* (src/content/library_upgrade.py) and the search-and-replace scan        *)
(* (src/content/search_replace.py).                                        *)
(*                                                                         *)
(* Strings whose characters matter (versions, artifact names, file texts   *)
(* of the search-and-replace scan) are sequences of one-character strings. *)
(* A build file of the library-upgrade scan is a sequence of segments, one *)
(* per place a regular expression of the rewriter can match.               *)
(***************************************************************************)
EXTENDS Integers, Sequences, FiniteSets, TLC

VARIABLES pf, parked, pv, rw, br, disk, disk0, lu, cmds, sr

(***************************************************************************)
(* Bounds of the model.                                                    *)
(***************************************************************************)
MaxSegs == 2

\* the largest numeric suffix among the branches that exist before a workflow
MaxSuffix == 3

\* the largest pool width process_directory_parallel is called with
MaxWorkers == 2

\* the longest version string handed to parse_version
MaxVerLen == 3

\* the largest component of the versions that are compared
MaxPart == 2

(***************************************************************************)
(* parse_version, is_major_bump                                            *)
(***************************************************************************)
DigitSeq == <<"0", "1", "2", "3", "4", "5", "6", "7", "8", "9">>

Digits == {DigitSeq[i] : i \in 1..Len(DigitSeq)}

DigitVal(c) == (CHOOSE i \in 1..Len(DigitSeq) : DigitSeq[i] = c) - 1

RECURSIVE SplitAcc(_, _, _, _)
SplitAcc(s, c, cur, acc) ==
    IF s = <<>> THEN Append(acc, cur)
    ELSE IF Head(s) = c THEN SplitAcc(Tail(s), c, <<>>, Append(acc, cur))
    ELSE SplitAcc(Tail(s), c, Append(cur, Head(s)), acc)

\* str.split(c): the pieces between the occurrences of c, empty pieces kept
Split(s, c) == SplitAcc(s, c, <<>>, <<>>)

\* SUPERSCRIPT TWO (U+00B2): a character of Unicode category No with
\* Numeric_Type=Digit; str.isdigit() accepts it, int() and \d do not
Sup2 == "<U+00B2>"

NonDecimalDigits == {Sup2}

\* str.isdigit(): non-empty and every character a digit
IsDigit(p) == p # <<>> /\ \A i \in 1..Len(p) : p[i] \in Digits \cup NonDecimalDigits

\* int(p) raises ValueError: p is empty or holds a character that is no
\* decimal digit
int_raises(p) == p = <<>> \/ \E i \in 1..Len(p) : p[i] \notin Digits

RECURSIVE LeadingDigits(_)
\* re.match(r"(\d+)", p): the leading run of digits, <<>> when there is none
LeadingDigits(p) ==
    IF p = <<>> \/ Head(p) \notin Digits THEN <<>>
    ELSE <<Head(p)>> \o LeadingDigits(Tail(p))

RECURSIVE ToInt(_)
\* int(p) of a digit string
ToInt(p) ==
    IF p = <<>> THEN 0
    ELSE 10 * ToInt(SubSeq(p, 1, Len(p) - 1)) + DigitVal(p[Len(p)])

SegmentNumber(p) ==
    IF IsDigit(p) THEN ToInt(p)
    ELSE IF LeadingDigits(p) # <<>> THEN ToInt(LeadingDigits(p))
    ELSE 0

\* the tuple parse_version(v) returns, when it returns
parse_version(v) ==
    LET base   == Split(v, "-")[1]
        parts  == Split(base, ".")
        nums   == [i \in 1..Len(parts) |-> SegmentNumber(parts[i])]
        padded == nums \o [i \in 1..(IF Len(nums) < 3 THEN 3 - Len(nums) ELSE 0) |-> 0]
    IN  SubSeq(padded, 1, 3)

\* parse_version(v) raises: int(p) of line 28 raises for a part that passed
\* p.isdigit(); the int of line 31 gets a run of \d characters and returns
parse_version_raises(v) ==
    \E i \in 1..Len(Split(Split(v, "-")[1], ".")) :
        /\ IsDigit(Split(Split(v, "-")[1], ".")[i])
        /\ int_raises(Split(Split(v, "-")[1], ".")[i])

\* the comparison looks at the major component only
TupleGT_major_only(a, b) == a # <<>> /\ b # <<>> /\ Head(a) > Head(b)

RECURSIVE TupleGT(_, _)
\* Python's a > b on tuples of integers: lexicographic
TupleGT(a, b) ==
    IF a = <<>> THEN FALSE
    ELSE IF b = <<>> THEN TRUE
    ELSE IF Head(a) # Head(b) THEN Head(a) > Head(b)
    ELSE TupleGT(Tail(a), Tail(b))

is_major_bump_geq(old_version, new_version) ==
    parse_version(new_version)[1] >= parse_version(old_version)[1]

is_major_bump(old_version, new_version) ==
    parse_version(new_version)[1] > parse_version(old_version)[1]

(***************************************************************************)
(* The text of a build file: a sequence of segments.                       *)
(*   lit   "g" sep "a" % "v"      a dependency with a quoted version       *)
(*   ref   "g" sep "a" % id       a dependency with an identifier version  *)
(*   val   val id = "v"           a binding of an identifier to a literal  *)
(*   other                        any text no pattern of the rewriter      *)
(*                                matches                                  *)
(* sep is the text between the group and the artifact ("%" or "%%"); it    *)
(* stands for the formatting inside a match.                               *)
(***************************************************************************)
NoStr == <<>>

Lit(g, sep, a, v) == [k |-> "lit", g |-> g, sep |-> sep, a |-> a, id |-> "", v |-> v]

Ref(g, sep, a, id) == [k |-> "ref", g |-> g, sep |-> sep, a |-> a, id |-> id, v |-> NoStr]

Val(id, v) == [k |-> "val", g |-> "", sep |-> "", a |-> NoStr, id |-> id, v |-> v]

Other == [k |-> "other", g |-> "", sep |-> "", a |-> NoStr, id |-> "", v |-> NoStr]

(***************************************************************************)
(* lossless_upgrade: the direct-literal mode                               *)
(***************************************************************************)
\* pattern (line 53) matches segment s
DirectMatch(s, group, artifact) == s.k = "lit" /\ s.g = group /\ s.a = artifact

\* lines 69-70 for one match: parse_version(old_version) or
\* parse_version(new_version) raises
parse_raises(old_version, new_version) ==
    parse_version_raises(old_version) \/ parse_version_raises(new_version)

\* the skipped branches rebuild the match instead of copying m.group(0)
direct_part_rebuilt(m, new_version, threshold_enabled, skip_major) ==
    IF parse_raises(m.v, new_version)
    THEN [part |-> m, upgraded |-> FALSE, raised |-> TRUE]
    ELSE IF threshold_enabled /\ TupleGT(parse_version(m.v), parse_version(new_version))
    THEN [part |-> [m EXCEPT !.sep = "%"], upgraded |-> FALSE, raised |-> FALSE]
    ELSE IF skip_major /\ is_major_bump(m.v, new_version)
    THEN [part |-> [m EXCEPT !.sep = "%"], upgraded |-> FALSE, raised |-> FALSE]
    ELSE [part |-> [m EXCEPT !.v = new_version], upgraded |-> TRUE, raised |-> FALSE]

\* the rewritten branch writes the prefix anew, with one "%", instead of
\* copying m.group(1)
direct_part_reformatted(m, new_version, threshold_enabled, skip_major) ==
    IF parse_raises(m.v, new_version)
    THEN [part |-> m, upgraded |-> FALSE, raised |-> TRUE]
    ELSE IF threshold_enabled /\ TupleGT(parse_version(m.v), parse_version(new_version))
    THEN [part |-> m, upgraded |-> FALSE, raised |-> FALSE]
    ELSE IF skip_major /\ is_major_bump(m.v, new_version)
    THEN [part |-> m, upgraded |-> FALSE, raised |-> FALSE]
    ELSE [part |-> Lit(m.g, "%", m.a, new_version), upgraded |-> TRUE, raised |-> FALSE]

\* the body of the finditer loop for one match m (lines 66-78)
direct_part(m, new_version, threshold_enabled, skip_major) ==
    IF parse_raises(m.v, new_version)
    THEN [part |-> m, upgraded |-> FALSE, raised |-> TRUE]
    ELSE IF threshold_enabled /\ TupleGT(parse_version(m.v), parse_version(new_version))
    THEN [part |-> m, upgraded |-> FALSE, raised |-> FALSE]
    ELSE IF skip_major /\ is_major_bump(m.v, new_version)
    THEN [part |-> m, upgraded |-> FALSE, raised |-> FALSE]
    ELSE [part |-> [m EXCEPT !.v = new_version], upgraded |-> TRUE, raised |-> FALSE]

\* a call of the rewriter that ended with an exception: it returns nothing
Raised == [text |-> <<>>, changed |-> FALSE, warnings |-> <<>>, raised |-> TRUE]

\* lines 82-87: the joined parts when a match was rewritten, else the original;
\* the exception of a match leaves the loop and the function
join_parts(original, parts) ==
    IF \E i \in 1..Len(parts) : parts[i].raised THEN Raised
    ELSE [text |-> IF \E i \in 1..Len(parts) : parts[i].upgraded
                   THEN [i \in 1..Len(parts) |-> parts[i].part]
                   ELSE original,
          changed |-> \E i \in 1..Len(parts) : parts[i].upgraded,
          warnings |-> <<>>,
          raised |-> FALSE]

lossless_upgrade(original, group, artifact, new_version, threshold_enabled, skip_major) ==
    join_parts(original,
               [i \in 1..Len(original) |->
                  IF DirectMatch(original[i], group, artifact)
                  THEN direct_part(original[i], new_version, threshold_enabled, skip_major)
                  ELSE [part |-> original[i], upgraded |-> FALSE, raised |-> FALSE]])

(***************************************************************************)
(* lossless_upgrade_variable_refs: the variable-indirection mode           *)
(***************************************************************************)
\* dep_pattern (line 108) matches segment s
DepMatch(s, group, artifact) == s.k = "ref" /\ s.g = group /\ s.a = artifact

var_names_of(original, group, artifact) ==
    {original[i].id : i \in {j \in 1..Len(original) : DepMatch(original[j], group, artifact)}}

\* val_pattern.search(modified): the index of the first binding of var_name, 0 for None
val_search(modified, var_name) ==
    LET hits == {i \in 1..Len(modified) : modified[i].k = "val" /\ modified[i].id = var_name}
    IN  IF hits = {} THEN 0 ELSE CHOOSE i \in hits : \A j \in hits : i <= j

Warning(var_name, group, artifact) == [var |-> var_name, group |-> group, artifact |-> artifact]

\* the rewrite of a binding also writes the new version at the usage sites
var_step_inlined(acc, var_name, at, lib, new_version, threshold_enabled, skip_major) ==
    IF at = 0
    THEN [acc EXCEPT !.warnings = Append(@, Warning(var_name, lib[1], lib[2]))]
    ELSE IF parse_raises(acc.text[at].v, new_version)
    THEN Raised
    ELSE IF threshold_enabled /\
            TupleGT(parse_version(acc.text[at].v), parse_version(new_version))
    THEN acc
    ELSE IF skip_major /\ is_major_bump(acc.text[at].v, new_version)
    THEN acc
    ELSE [acc EXCEPT
            !.text = [i \in 1..Len(acc.text) |->
                        IF i = at THEN [acc.text[i] EXCEPT !.v = new_version]
                        ELSE IF DepMatch(acc.text[i], lib[1], lib[2]) /\ acc.text[i].id = var_name
                        THEN Lit(lib[1], acc.text[i].sep, lib[2], new_version)
                        ELSE acc.text[i]],
            !.changed = TRUE]

\* one round of the loop over var_names (lines 126-151); at is the place of
\* val_match in the text, 0 for no match
var_step(acc, var_name, at, lib, new_version, threshold_enabled, skip_major) ==
    IF at = 0
    THEN [acc EXCEPT !.warnings = Append(@, Warning(var_name, lib[1], lib[2]))]
    ELSE IF parse_raises(acc.text[at].v, new_version)
    THEN Raised
    ELSE IF threshold_enabled /\
            TupleGT(parse_version(acc.text[at].v), parse_version(new_version))
    THEN acc
    ELSE IF skip_major /\ is_major_bump(acc.text[at].v, new_version)
    THEN acc
    ELSE [acc EXCEPT !.text = [@ EXCEPT ![at] = [@ EXCEPT !.v = new_version]],
                     !.changed = TRUE]

RECURSIVE var_loop(_, _, _, _, _, _)
\* the loop over var_names (line 125); order lists the set in iteration order
var_loop(order, acc, lib, new_version, threshold_enabled, skip_major) ==
    IF order = <<>> \/ acc.raised THEN acc
    ELSE var_loop(Tail(order),
                  var_step(acc, Head(order), val_search(acc.text, Head(order)), lib,
                           new_version, threshold_enabled, skip_major),
                  lib, new_version, threshold_enabled, skip_major)

\* order: the iteration order of the Python set var_names
lossless_upgrade_variable_refs(original, group, artifact, new_version, threshold_enabled, skip_major, order) ==
    var_loop(order, [text |-> original, changed |-> FALSE, warnings |-> <<>>,
                     raised |-> FALSE],
             <<group, artifact>>, new_version, threshold_enabled, skip_major)

\* the sequences that list the set S once each
Orders(S) == {o \in [1..Cardinality(S) -> S] : \A i, j \in 1..Cardinality(S) : o[i] = o[j] => i = j}

(***************************************************************************)
(* Inputs of the rewriter                                                  *)
(***************************************************************************)
V100 == <<"1", ".", "0", ".", "0">>

V123 == <<"1", ".", "2", ".", "3">>

V123RC == <<"1", ".", "2", ".", "3", "-", "R", "C", "1">>

V130 == <<"1", ".", "3", ".", "0">>

V200 == <<"2", ".", "0", ".", "0">>

V21 == <<"2", ".", "1">>

\* a version whose last part is a digit that is no decimal digit
V1Sup == <<"1", ".", Sup2>>

GroupX == "org.x"

ArtY == <<"y">>

ArtZ == <<"z">>

TextVersions == {V123, V21, V1Sup}

NewVersions == {V100, V123, V123RC, V130, V200, V1Sup}

Idents == {"mongoVersion", "otherVersion"}

SegPool ==
    {Lit(GroupX, sep, ArtY, v) : sep \in {"%", "%%"}, v \in TextVersions}
    \cup {Lit(GroupX, "%", ArtZ, V123)}
    \cup {Ref(GroupX, "%%", ArtY, id) : id \in Idents}
    \cup {Val(id, v) : id \in Idents, v \in TextVersions}
    \cup {Other}

Texts == UNION {[1..n -> SegPool] : n \in 0..MaxSegs}

(***************************************************************************)
(* The file tree of the library-upgrade scan.  A path is the sequence of   *)
(* its directory names with the file's stem and extension.                 *)
(***************************************************************************)
\* find_git_root's None
NoRepo == <<"<None>">>

\* the directories that hold a .git directory
GitDirs == {<<"w", "r1">>, <<"w", "r2">>}

File(dir, stem, ext) == [dir |-> dir, stem |-> stem, ext |-> ext]

F1 == File(<<"w", "r1">>, "build", ".sbt")

F2 == File(<<"w", "r1", "project">>, "Deps", ".scala")

F3 == File(<<"w", "loose">>, "build", ".sbt")

F4 == File(<<"w", "r2">>, "build", ".sbt")

F5 == File(<<"w", "r2">>, "notes", ".md")

\* the order in which os.walk(self.root_dir) yields the files
WalkOrder == <<F1, F2, F3, F4, F5>>

Files == {WalkOrder[i] : i \in 1..Len(WalkOrder)}

\* the directory of the search-and-replace scan and its files
SrRoot == <<"s">>

T1 == File(<<"s">>, "a", ".txt")

T2 == File(<<"s">>, "b", ".txt")

T3 == File(<<"s", "sub">>, "c", ".json")

\* the order in which os.walk(root) yields the files
SrWalkOrder == <<T1, T2, T3>>

SrFiles == {SrWalkOrder[i] : i \in 1..Len(SrWalkOrder)}

RECURSIVE git_root_from(_)
\* the while loop of find_git_root from directory current
git_root_from(current) ==
    IF current \in GitDirs THEN current
    ELSE IF current = <<>> THEN NoRepo
    ELSE git_root_from(SubSeq(current, 1, Len(current) - 1))

\* path is a regular file, so the first round of the loop (path/.git) fails
\* and the walk goes on from the file's directory
find_git_root(path) == git_root_from(path.dir)

\* fn.endswith(".scala") or fn.endswith(".sbt")
Eligible(path) == path.ext \in {".scala", ".sbt"}

(***************************************************************************)
(* Libraries: the list parse_libraries returns                             *)
(***************************************************************************)
LibSpec(g, a, v) == [group |-> g, artifact |-> a, version |-> v]

LibKey(lib) == <<lib.group, lib.artifact>>

LibChoices ==
    {<<>>,
     <<LibSpec(GroupX, ArtY, V130)>>,
     <<LibSpec(GroupX, ArtY, V123)>>,
     <<LibSpec(GroupX, ArtY, V130), LibSpec(GroupX, ArtZ, V200)>>,
     <<LibSpec(GroupX, ArtY, V130), LibSpec(GroupX, ArtY, V100)>>}

\* lib_by_key (line 471): the last library of each key wins
lib_by_key(libs, key) ==
    libs[CHOOSE i \in 1..Len(libs) :
            /\ LibKey(libs[i]) = key
            /\ \A j \in 1..Len(libs) : LibKey(libs[j]) = key => j <= i]

\* the members of set S in the order of rank
OrderBy(S, rank) == SelectSeq(rank, LAMBDA x : x \in S)

(***************************************************************************)
(* The scan of _upgrade (lines 389-454)                                    *)
(***************************************************************************)
\* lines 415-433 for one library: d and v are the results of the two modes
lib_result(acc, lib, d, v) ==
    IF v.raised THEN [acc EXCEPT !.raised = TRUE]
    ELSE [modified |-> v.text,
          upgraded |-> acc.upgraded \/ d.changed \/ v.changed,
          keys |-> acc.keys \cup (IF d.changed \/ v.changed THEN {LibKey(lib)} ELSE {}),
          warnings |-> acc.warnings \o v.warnings,
          raised |-> FALSE]

\* lines 419-426: the variable mode runs on the output d of the direct mode
lib_variable(acc, lib, d, flags, idRank) ==
    IF d.raised THEN [acc EXCEPT !.raised = TRUE]
    ELSE lib_result(acc, lib, d,
                    lossless_upgrade_variable_refs(d.text, lib.group, lib.artifact,
                        lib.version, flags.thr, flags.skip,
                        OrderBy(var_names_of(d.text, lib.group, lib.artifact), idRank)))

\* lines 405-414
lib_step(acc, lib, flags, idRank) ==
    lib_variable(acc, lib,
                 lossless_upgrade(acc.modified, lib.group, lib.artifact, lib.version,
                                  flags.thr, flags.skip),
                 flags, idRank)

RECURSIVE lib_loop(_, _, _, _)
\* the loop over libs for one file (line 404); an exception of the rewriter
\* leaves it
lib_loop(libs, acc, flags, idRank) ==
    IF libs = <<>> \/ acc.raised THEN acc
    ELSE lib_loop(Tail(libs), lib_step(acc, Head(libs), flags, idRank), flags, idRank)

\* lines 400-433 for one file
upgrade_file(original, libs, flags, idRank) ==
    lib_loop(libs, [modified |-> original, upgraded |-> FALSE, keys |-> {},
                    warnings |-> <<>>, raised |-> FALSE],
             flags, idRank)

\* repo_writes[repo_root].append(...) and repo_changed_lib_keys[repo_root].update(...)
\* (lines 449-454); repo_writes is a dict in insertion order
add_write(repo_writes, repo_root, path, modified, keys) ==
    IF \E i \in 1..Len(repo_writes) : repo_writes[i].root = repo_root
    THEN [i \in 1..Len(repo_writes) |->
            IF repo_writes[i].root = repo_root
            THEN [repo_writes[i] EXCEPT
                    !.writes = Append(@, [path |-> path, content |-> modified]),
                    !.keys = @ \cup keys]
            ELSE repo_writes[i]]
    ELSE Append(repo_writes,
                [root |-> repo_root,
                 writes |-> <<[path |-> path, content |-> modified]>>,
                 keys |-> keys])

\* all_warnings.append(f"{relative}: {w}") for the warnings of one file (line 433)
file_warnings(path, warnings) ==
    [k \in 1..Len(warnings) |-> [file |-> path, warning |-> warnings[k]]]

\* the warnings of a file reach all_warnings only when the file was changed
scan_file_warn_changed_only(acc, path, original, preview, u) ==
    IF u.raised THEN [acc EXCEPT !.raised = TRUE]
    ELSE IF ~u.upgraded
    THEN acc
    ELSE IF preview
    THEN [acc EXCEPT
            !.warnings = @ \o file_warnings(path, u.warnings),
            !.diff_map = Append(@, [path |-> path, original |-> original,
                                    modified |-> u.modified])]
    ELSE [acc EXCEPT
            !.warnings = @ \o file_warnings(path, u.warnings),
            !.repo_writes = add_write(@, find_git_root(path), path, u.modified, u.keys)]

\* lines 431-454 for one file that was read: u is the result of the loop over libs
scan_file(acc, path, original, preview, u) ==
    IF u.raised THEN [acc EXCEPT !.raised = TRUE]
    ELSE IF ~u.upgraded
    THEN [acc EXCEPT !.warnings = @ \o file_warnings(path, u.warnings)]
    ELSE IF preview
    THEN [acc EXCEPT
            !.warnings = @ \o file_warnings(path, u.warnings),
            !.diff_map = Append(@, [path |-> path, original |-> original,
                                    modified |-> u.modified])]
    ELSE [acc EXCEPT
            !.warnings = @ \o file_warnings(path, u.warnings),
            !.repo_writes = add_write(@, find_git_root(path), path, u.modified, u.keys)]

RECURSIVE scan_loop(_, _, _, _, _, _, _, _)
\* the os.walk loop (lines 389-398); unreadable: the files whose open/read
\* raises; an exception of the rewriter leaves the loop
scan_loop(files, acc, contents, unreadable, preview, libs, flags, idRank) ==
    IF files = <<>> \/ acc.raised THEN acc
    ELSE scan_loop(Tail(files),
                   IF ~Eligible(Head(files)) \/ Head(files) \in unreadable THEN acc
                   ELSE scan_file(acc, Head(files), contents[Head(files)], preview,
                                  upgrade_file(contents[Head(files)], libs, flags, idRank)),
                   contents, unreadable, preview, libs, flags, idRank)

scan(contents, unreadable, preview, libs, flags, idRank) ==
    scan_loop(WalkOrder, [diff_map |-> <<>>, repo_writes |-> <<>>, warnings |-> <<>>,
                          raised |-> FALSE],
              contents, unreadable, preview, libs, flags, idRank)

(***************************************************************************)
(* Branch names, commit messages                                           *)
(***************************************************************************)
Letters ==
    {"a", "b", "c", "d", "e", "f", "g", "h", "i", "j", "k", "l", "m", "n", "o", "p",
     "q", "r", "s", "t", "u", "v", "w", "x", "y", "z", "A", "B", "C", "D", "E", "F",
     "G", "H", "I", "J", "K", "L", "M", "N", "O", "P", "Q", "R", "S", "T", "U", "V",
     "W", "X", "Y", "Z"}

\* the characters re.sub(r"[^a-zA-Z0-9._/-]", "-", name) keeps
BranchChars == Letters \cup Digits \cup {".", "_", "/", "-"}

RECURSIVE JoinParts(_, _)
JoinParts(parts, sep) ==
    IF parts = <<>> THEN <<>>
    ELSE IF Len(parts) = 1 THEN parts[1]
    ELSE parts[1] \o sep \o JoinParts(Tail(parts), sep)

build_branch_name(libs) ==
    LET parts == [i \in 1..Len(libs) |-> libs[i].artifact \o <<"-">> \o libs[i].version]
        name  == <<"u", "p", "g", "r", "a", "d", "e", "-">> \o JoinParts(parts, <<"_">>)
    IN  [i \in 1..Len(name) |-> IF name[i] \in BranchChars THEN name[i] ELSE "-"]

RECURSIVE Decimal(_)
\* str(n) for n >= 0
Decimal(n) == IF n < 10 THEN <<DigitSeq[n + 1]>> ELSE Decimal(n \div 10) \o <<DigitSeq[(n % 10) + 1]>>

\* f"{base}-{counter}"
Candidate(base, counter) == base \o <<"-">> \o Decimal(counter)

(***************************************************************************)
(* A repository as the branch commands see it: env.local and env.remote    *)
(* are the branches that exist, env.lfail and env.rfail the branch names   *)
(* for which `git branch --list` and `git ls-remote` exit non-zero (with   *)
(* nothing on stdout).                                                     *)
(***************************************************************************)
\* stdout of run_git(["branch", "--list", branch])
branch_list_out(branch, env) ==
    IF branch \notin env.lfail /\ branch \in env.local THEN <<branch>> ELSE <<>>

\* ref ends with "/" and pattern
TailOf(pattern, ref) ==
    /\ Len(ref) > Len(pattern)
    /\ SubSeq(ref, Len(ref) - Len(pattern), Len(ref)) = <<"/">> \o pattern

\* stdout of run_git(["ls-remote", "--heads", "origin", branch]): git lists the
\* remote heads whose name is the pattern or ends with "/" and the pattern
ls_remote_out(branch, env) ==
    IF branch \in env.rfail THEN <<>>
    ELSE IF \E r \in env.remote : r = branch \/ TailOf(branch, r) THEN <<branch>>
    ELSE <<>>

branch_exists(branch, env) ==
    IF branch_list_out(branch, env) # <<>> THEN TRUE
    ELSE ls_remote_out(branch, env) # <<>>

RECURSIVE unique_from(_, _, _)
\* the while loop of make_unique_branch_name
unique_from(base, counter, env) ==
    IF ~branch_exists(Candidate(base, counter), env) THEN Candidate(base, counter)
    ELSE unique_from(base, counter + 1, env)

make_unique_branch_name(base, env) ==
    IF ~branch_exists(base, env) THEN base ELSE unique_from(base, 2, env)

\* one of the list commands branch_exists(branch) runs exits non-zero: the
\* code of line 180 or of line 183, which the function assigns and never reads
list_failed(branch, env) ==
    \/ branch \in env.lfail
    \/ branch_list_out(branch, env) = <<>> /\ branch \in env.rfail

RECURSIVE unique_list_failed(_, _, _)
\* the same for the calls of the while loop of make_unique_branch_name
unique_list_failed(base, counter, env) ==
    \/ list_failed(Candidate(base, counter), env)
    \/ /\ branch_exists(Candidate(base, counter), env)
       /\ unique_list_failed(base, counter + 1, env)

\* the same for all the calls make_unique_branch_name(base) makes
resolve_list_failed(base, env) ==
    \/ list_failed(base, env)
    \/ branch_exists(base, env) /\ unique_list_failed(base, 2, env)

\* the branches that can exist beside base
BranchUniverse(base) == {base} \cup {Candidate(base, n) : n \in 1..MaxSuffix}

\* a remote branch of another name that ends with "/" and base
Nested(base) == <<"f", "/">> \o base

Envs(base) ==
    [local : SUBSET BranchUniverse(base),
     remote : SUBSET (BranchUniverse(base) \cup {Nested(base)}),
     lfail : SUBSET {base, Candidate(base, 2)}, rfail : SUBSET {base, Candidate(base, 2)}]

(***************************************************************************)
(* make_unique_branch_name applied to one base name in one repository      *)
(***************************************************************************)
ArtFoo == <<"f", "o", "o">>

Bases ==
    {build_branch_name(<<LibSpec(GroupX, ArtFoo, V100)>>),
     build_branch_name(<<LibSpec(GroupX, ArtY, V130), LibSpec(GroupX, ArtZ, V200)>>)}

BrIdle == [pc |-> "idle", base |-> <<>>, env |-> [local |-> {}, remote |-> {}, lfail |-> {}, rfail |-> {}],
           branch |-> <<>>]

UniqueBranch ==
    /\ br.pc = "input"
    /\ br' = [br EXCEPT !.pc = "done", !.branch = make_unique_branch_name(br.base, br.env)]
    /\ UNCHANGED <<pf, parked, pv, rw, disk, disk0, lu, cmds, sr>>


(***************************************************************************)
(* git_workflow (lines 235-294) and the apply loop of _upgrade             *)
(* (lines 467-502).  Every external command is one step; cmds is the list  *)
(* of the commands invoked so far with their exit codes.                   *)
(***************************************************************************)
\* the return codes a command can exit with
ExitCodes == {0, 1}

\* the captured stderr of the n-th command when it fails, and the stdout of gh
StderrOf(n) == <<"stderr#">> \o Decimal(n)

PrUrlOf(n) == <<"https://pr/">> \o Decimal(n)

\* a command with its exit code, its captured stderr and, for gh pr create,
\* its stdout
Cmd(root, cmd, arg, code) ==
    [root |-> root, cmd |-> cmd, arg |-> arg, code |-> code,
     err |-> IF code = 0 THEN <<>> ELSE StderrOf(Len(cmds) + 1),
     out |-> IF code = 0 /\ cmd = "pr" THEN PrUrlOf(Len(cmds) + 1) ELSE <<>>]

\* `if code != 0` after a command (lines 254, 264, 268, 287)
step_failed(code) == code # 0

\* the staging loop goes on whatever git add returned
stage_failed_ignored(code) == FALSE

\* `if code != 0` after git add (line 259)
stage_failed(code) == code # 0

\* the loop stops at the first repository whose workflow failed
next_pc_stop_on_failure(i, n, success) == IF i < n /\ success THEN "write" ELSE "done"

\* where the for loop of line 474 goes after the group at position i of n
next_pc(i, n, success) == IF i < n THEN "write" ELSE "done"

\* the no-repository bucket is given a branch like any repository
no_repo_bucket_never(repo_root) == FALSE

\* `if repo_root is None` (line 480)
no_repo_bucket(repo_root) == repo_root = NoRepo

Note(severity, kind, subject) == [severity |-> severity, kind |-> kind, subject |-> subject]

Message(kind, subject, text) == [kind |-> kind, subject |-> subject, text |-> text]

NoResult == [text |-> <<>>, changed |-> FALSE, warnings |-> <<>>, raised |-> FALSE]

PvIdle == [pc |-> "idle", v |-> <<>>, value |-> <<>>, cmp |-> <<>>]

RwIdle == [pc |-> "idle", text |-> <<>>, new |-> V100, thr |-> FALSE, skip |-> FALSE,
           direct |-> NoResult, var |-> NoResult]

NoWf == [root |-> NoRepo, files |-> <<>>, libs |-> <<>>, branch |-> <<>>, j |-> 0,
         list_failed |-> FALSE]

LuIdle ==
    [pc |-> "idle", preview |-> FALSE, libs |-> <<>>, repo_writes |-> <<>>, diff_map |-> <<>>,
     shown |-> FALSE, i |-> 0, wf |-> NoWf, notes |-> <<>>, results |-> <<>>,
     written |-> <<>>, total_files |-> 0, unreadable |-> {}]

\* the contents a file of the tree can have before a run
FileTexts(path) ==
    IF path = F1 THEN {<<Lit(GroupX, "%", ArtY, V123)>>, <<Other>>}
    ELSE IF path = F2 THEN {<<Val("mongoVersion", V123), Ref(GroupX, "%%", ArtY, "mongoVersion")>>,
                            <<Ref(GroupX, "%%", ArtY, "otherVersion")>>,
                            <<Ref(GroupX, "%", ArtY, "otherVersion"),
                              Val("mongoVersion", V123),
                              Ref(GroupX, "%%", ArtY, "mongoVersion")>>}
    ELSE IF path = F3 THEN {<<Lit(GroupX, "%%", ArtY, V123)>>, <<Other>>,
                            <<Val("mongoVersion", V1Sup),
                              Ref(GroupX, "%", ArtY, "mongoVersion")>>}
    ELSE IF path = F4 THEN {<<Lit(GroupX, "%", ArtY, V21), Lit(GroupX, "%", ArtZ, V123)>>,
                            <<Lit(GroupX, "%", ArtY, V123)>>}
    ELSE {<<Lit(GroupX, "%", ArtY, V123)>>}


\* the end of one round of the for loop of line 474: on to the next group, or
\* the closing notification (line 499)
LoopOn(l, success) ==
    LET pc == next_pc(l.i, Len(l.repo_writes), success)
    IN  IF pc = "write"
        THEN [l EXCEPT !.pc = "write", !.i = @ + 1, !.wf = NoWf]
        ELSE [l EXCEPT !.pc = "done", !.wf = NoWf,
                       !.notes = Append(@, Note("success", "Applied changes", l.total_files))]

\* git_workflow returns (success, message); lines 492-497 notify it
Return(l, success, message) ==
    LoopOn([l EXCEPT
              !.results = Append(@, [root |-> l.wf.root, success |-> success,
                                     message |-> message]),
              !.notes = Append(@, Note(IF success THEN "success" ELSE "error",
                                       message.kind, l.wf.root))],
           success)

\* lines 457-469: the warnings are notified, then the preview is shown or the
\* apply loop begins; s is the result of the scan. An exception of the scan
\* ends _upgrade before any of this
after_scan(l, preview, libs, s) ==
    IF s.raised THEN [l EXCEPT !.pc = "raised", !.preview = preview]
    ELSE IF preview
    THEN IF s.diff_map = <<>>
         THEN [l EXCEPT !.pc = "done", !.preview = preview,
                 !.notes = (@ \o [k \in 1..Len(s.warnings) |->
                                    Note("warning", "definition not found", s.warnings[k])])
                           \o <<Note("warning", "No changes detected.", <<>>)>>]
         ELSE [l EXCEPT !.pc = "done", !.preview = preview,
                 !.notes = @ \o [k \in 1..Len(s.warnings) |->
                                   Note("warning", "definition not found", s.warnings[k])],
                 !.diff_map = s.diff_map, !.shown = TRUE]
    ELSE IF s.repo_writes = <<>>
         THEN [l EXCEPT !.pc = "done", !.preview = preview,
                 !.notes = (@ \o [k \in 1..Len(s.warnings) |->
                                    Note("warning", "definition not found", s.warnings[k])])
                           \o <<Note("warning", "No changes detected.", <<>>)>>]
         ELSE [l EXCEPT !.pc = "write", !.preview = preview, !.i = 1,
                 !.notes = @ \o [k \in 1..Len(s.warnings) |->
                                   Note("warning", "definition not found", s.warnings[k])],
                 !.repo_writes = s.repo_writes]

\* Button.Pressed #preview / #apply: _upgrade up to the end of the scan (line
\* 469); lu.libs and lu.unreadable keep the inputs of the run
UpgradeStart(preview) ==
    /\ lu.pc = "idle"
    /\ sr.pc = "idle"
    /\ \E libs \in LibChoices, thr \in BOOLEAN, skip \in BOOLEAN,
          unreadable \in {{}} \cup {{f} : f \in {F1, F4}}, idRank \in Orders(Idents) :
         IF libs = <<>>
         THEN lu' = [lu EXCEPT !.pc = "done", !.preview = preview,
                        !.notes = Append(@, Note("warning", "Enter at least one library.", <<>>))]
         ELSE lu' = after_scan([lu EXCEPT !.libs = libs, !.unreadable = unreadable],
                               preview, libs,
                               scan(disk, unreadable, preview, libs,
                                    [thr |-> thr, skip |-> skip], idRank))
    /\ UNCHANGED <<pf, parked, pv, rw, br, disk, disk0, cmds, sr>>

\* every eligible file of the repository of the group is staged
changed_paths_whole_repo(writes) ==
    SelectSeq(WalkOrder, LAMBDA f : Eligible(f) /\ find_git_root(f) = find_git_root(writes[1].path))

\* changed_paths = [p for p, _ in writes] (line 490)
changed_paths(writes) == [w \in 1..Len(writes) |-> writes[w].path]

\* one round of the for loop of line 474 up to the call of git_workflow: the
\* group's files are written in order; k is the number of writes before the
\* first open(fpath, "w") that raises (all of them when none does)
WriteGroup ==
    /\ lu.pc = "write"
    /\ LET g == lu.repo_writes[lu.i]
           n == Len(g.writes)
       IN  \E k \in 0..n :
             /\ disk' = [f \in DOMAIN disk |->
                           IF \E w \in 1..k : g.writes[w].path = f
                           THEN g.writes[CHOOSE w \in 1..k : g.writes[w].path = f].content
                           ELSE disk[f]]
             /\ LET l == [lu EXCEPT
                            !.written = @ \o [w \in 1..k |-> g.writes[w].path],
                            !.total_files = @ + k]
                IN  IF k < n
                    THEN lu' = [l EXCEPT !.pc = "crashed"]
                    ELSE IF no_repo_bucket(g.root)
                    THEN lu' = LoopOn([l EXCEPT !.notes =
                                         Append(@, Note("warning", "outside any git repo", n))],
                                      TRUE)
                    ELSE \E order \in Orders(g.keys) :
                           lu' = [l EXCEPT
                                    !.pc = "resolve",
                                    !.notes = Append(@, Note("information",
                                                 "Creating branch and PR", g.root)),
                                    !.wf = [root |-> g.root,
                                            files |-> changed_paths(g.writes),
                                            libs |-> [x \in 1..Len(order) |->
                                                        lib_by_key(lu.libs, order[x])],
                                            branch |-> <<>>, j |-> 1,
                                            list_failed |-> FALSE]]
    /\ UNCHANGED <<pf, parked, pv, rw, br, disk0, cmds, sr>>

\* the branches and the failing list commands a workflow can meet
WorkflowEnvs(base) ==
    [local : SUBSET {base}, remote : SUBSET {base, Candidate(base, 2), Nested(base)},
     lfail : SUBSET {base}, rfail : SUBSET {base}]

\* lines 250-251; wf.list_failed keeps whether a list command of the
\* resolution exited non-zero
ResolveFrom(branch_base) ==
    \E env \in WorkflowEnvs(branch_base) :
        lu' = [lu EXCEPT !.pc = "checkout",
                 !.wf.branch = make_unique_branch_name(branch_base, env),
                 !.wf.list_failed = resolve_list_failed(branch_base, env)]

ResolveBranch ==
    /\ lu.pc = "resolve"
    /\ ResolveFrom(build_branch_name(lu.wf.libs))
    /\ UNCHANGED <<pf, parked, pv, rw, br, disk, disk0, cmds, sr>>

\* lines 253-255
Checkout ==
    /\ lu.pc = "checkout"
    /\ \E code \in ExitCodes :
         LET c == Cmd(lu.wf.root, "checkout", lu.wf.branch, code)
         IN  /\ cmds' = Append(cmds, c)
             /\ lu' = IF step_failed(code)
                      THEN Return(lu, FALSE, Message("Failed to create branch", lu.wf.branch, c.err))
                      ELSE [lu EXCEPT !.pc = IF lu.wf.files = <<>> THEN "commit" ELSE "add"]
    /\ UNCHANGED <<pf, parked, pv, rw, br, disk, disk0, sr>>

\* one round of the loop of lines 257-260
Stage ==
    /\ lu.pc = "add"
    /\ \E code \in ExitCodes :
         LET f == lu.wf.files[lu.wf.j]
             c == Cmd(lu.wf.root, "add", f, code)
         IN  /\ cmds' = Append(cmds, c)
             /\ lu' = IF stage_failed(code)
                      THEN Return(lu, FALSE, Message("Failed to stage", f, c.err))
                      ELSE [lu EXCEPT !.wf.j = @ + 1,
                              !.pc = IF lu.wf.j < Len(lu.wf.files) THEN "add" ELSE "commit"]
    /\ UNCHANGED <<pf, parked, pv, rw, br, disk, disk0, sr>>

\* lines 262-265
Commit ==
    /\ lu.pc = "commit"
    /\ \E code \in ExitCodes :
         LET c == Cmd(lu.wf.root, "commit", lu.wf.libs, code)
         IN  /\ cmds' = Append(cmds, c)
             /\ lu' = IF step_failed(code)
                      THEN Return(lu, FALSE, Message("Failed to commit", lu.wf.root, c.err))
                      ELSE [lu EXCEPT !.pc = "push"]
    /\ UNCHANGED <<pf, parked, pv, rw, br, disk, disk0, sr>>

\* lines 267-269
Push ==
    /\ lu.pc = "push"
    /\ \E code \in ExitCodes :
         LET c == Cmd(lu.wf.root, "push", lu.wf.branch, code)
         IN  /\ cmds' = Append(cmds, c)
             /\ lu' = IF step_failed(code)
                      THEN Return(lu, FALSE, Message("Failed to push branch", lu.wf.branch, c.err))
                      ELSE [lu EXCEPT !.pc = "pr"]
    /\ UNCHANGED <<pf, parked, pv, rw, br, disk, disk0, sr>>

\* a failing gh pr create is reported with the message of a failing push
pr_result_as_push(c, branch, repo_root) ==
    IF c.code # 0
    THEN [success |-> FALSE, message |-> Message("Failed to push branch", branch, c.err)]
    ELSE [success |-> TRUE, message |-> Message("PR created", repo_root, c.out)]

\* lines 287-294: what git_workflow returns after gh pr create ended as c
pr_result(c, branch, repo_root) ==
    IF c.code # 0
    THEN [success |-> FALSE,
          message |-> Message("pushed but PR creation failed", branch, c.err)]
    ELSE [success |-> TRUE, message |-> Message("PR created", repo_root, c.out)]

\* lines 271-294
CreatePr ==
    /\ lu.pc = "pr"
    /\ \E code \in ExitCodes :
         LET c == Cmd(lu.wf.root, "pr", lu.wf.branch, code)
         IN  /\ cmds' = Append(cmds, c)
             /\ lu' = Return(lu, pr_result(c, lu.wf.branch, lu.wf.root).success,
                             pr_result(c, lu.wf.branch, lu.wf.root).message)
    /\ UNCHANGED <<pf, parked, pv, rw, br, disk, disk0, sr>>

(***************************************************************************)
(* Search and replace (search_replace.py). A text is a sequence of         *)
(* one-character strings; positions are counted from 0 as in the code.     *)
(***************************************************************************)
WhiteSpace == {" ", "\n", "\t"}

\* str.isspace on one character
isspace(ch) == ch \in WhiteSpace

Smaller(x, y) == IF x <= y THEN x ELSE y

\* s[lo:hi] for 0 <= lo, with the clamping of Python's slices
Slice(s, lo, hi) == SubSeq(s, Smaller(lo, Len(s)) + 1, Smaller(hi, Len(s)))

\* s.find(sub, start): the first position >= start at which sub occurs, or -1
find(s, sub, start) ==
    LET at == {p \in start..(Len(s) - Len(sub)) : Slice(s, p, p + Len(sub)) = sub}
    IN  IF at = {} THEN -1 ELSE CHOOSE p \in at : \A q \in at : p <= q

\* re.sub(r"\s+", "", s)
remove_ws(s) == SelectSeq(s, LAMBDA ch : ~isspace(ch))

\* b"\0" not in f.read(8000): no text of the model is longer than 8000
NUL == "\\0"

has_nul(content) == \E k \in 1..Len(content) : content[k] = NUL

\* the character classes of TOKEN_PATTERN (lines 41-44)
Quotes == {"\"", "'"}

Punctuation == {"%", "(", ")", "{", "}", "[", "]", ",", "="}

IdentChars == Letters \cup Digits \cup {".", "_", ":", "-"}

\* the end of the run of identifier characters that begins at pos
RECURSIVE ident_end(_, _)
ident_end(s, pos) ==
    IF pos < Len(s) /\ s[pos + 1] \in IdentChars THEN ident_end(s, pos + 1) ELSE pos

\* the position of the quote that closes the one at pos, or -1
quote_end(s, pos) == find(s, <<s[pos + 1]>>, pos + 1)

\* TOKEN_PATTERN.findall from pos on: at each position the alternatives are
\* tried in the order of the pattern; a character no alternative matches is
\* passed over
RECURSIVE findall(_, _)
findall(s, pos) ==
    IF pos >= Len(s) THEN <<>>
    ELSE IF s[pos + 1] \in Quotes /\ quote_end(s, pos) # -1
    THEN <<Slice(s, pos, quote_end(s, pos) + 1)>> \o findall(s, quote_end(s, pos) + 1)
    ELSE IF s[pos + 1] \in Punctuation
    THEN <<<<s[pos + 1]>>>> \o findall(s, pos + 1)
    ELSE IF s[pos + 1] \in IdentChars
    THEN <<Slice(s, pos, ident_end(s, pos))>> \o findall(s, ident_end(s, pos))
    ELSE findall(s, pos + 1)

tokenize(s) == findall(s, 0)

(***************************************************************************)
(* difflib.SequenceMatcher(a, b) without junk (no junk function is given,  *)
(* and the automatic junk heuristic needs 200 elements).                   *)
(***************************************************************************)
Block(i, j, k) == [a |-> i, b |-> j, size |-> k]

\* find_longest_match: the longest block a[i:i+k] = b[j:j+k] inside the two
\* ranges; among the longest the one that starts earliest in a, and among
\* those the one that starts earliest in b
find_longest_match(a, b, alo, ahi, blo, bhi) ==
    LET cand == {m \in [a : alo..(ahi - 1), b : blo..(bhi - 1),
                        size : 1..Smaller(ahi - alo, bhi - blo)] :
                    /\ m.a + m.size <= ahi
                    /\ m.b + m.size <= bhi
                    /\ Slice(a, m.a, m.a + m.size) = Slice(b, m.b, m.b + m.size)}
    IN  IF cand = {} THEN Block(alo, blo, 0)
        ELSE CHOOSE m \in cand : \A n \in cand :
                \/ m.size > n.size
                \/ m.size = n.size /\ m.a < n.a
                \/ m.size = n.size /\ m.a = n.a /\ m.b <= n.b

\* get_matching_blocks before the closing (len(a), len(b), 0): the longest
\* match of the range, then the same to its left and to its right
RECURSIVE matching_blocks(_, _, _, _, _, _)
RECURSIVE blocks_around(_, _, _, _, _, _, _)
blocks_around(a, b, alo, ahi, blo, bhi, m) ==
    IF m.size = 0 THEN <<>>
    ELSE (IF alo < m.a /\ blo < m.b
          THEN matching_blocks(a, b, alo, m.a, blo, m.b) ELSE <<>>)
         \o <<m>>
         \o (IF m.a + m.size < ahi /\ m.b + m.size < bhi
             THEN matching_blocks(a, b, m.a + m.size, ahi, m.b + m.size, bhi) ELSE <<>>)

matching_blocks(a, b, alo, ahi, blo, bhi) ==
    blocks_around(a, b, alo, ahi, blo, bhi, find_longest_match(a, b, alo, ahi, blo, bhi))

Opcode(tag, i1, i2, j1, j2) == [tag |-> tag, i1 |-> i1, i2 |-> i2, j1 |-> j1, j2 |-> j2]

\* the tag of the gap between (i, j) and the next matching block
gap_tag(i, j, m) ==
    IF i < m.a /\ j < m.b THEN "replace"
    ELSE IF i < m.a THEN "delete"
    ELSE IF j < m.b THEN "insert"
    ELSE ""

\* the loop of get_opcodes over the matching blocks from the n-th on
RECURSIVE opcodes_from(_, _, _, _)
opcodes_from(blocks, n, i, j) ==
    IF n > Len(blocks) THEN <<>>
    ELSE (IF gap_tag(i, j, blocks[n]) = "" THEN <<>>
          ELSE <<Opcode(gap_tag(i, j, blocks[n]), i, blocks[n].a, j, blocks[n].b)>>)
         \o (IF blocks[n].size = 0 THEN <<>>
             ELSE <<Opcode("equal", blocks[n].a, blocks[n].a + blocks[n].size,
                           blocks[n].b, blocks[n].b + blocks[n].size)>>)
         \o opcodes_from(blocks, n + 1, blocks[n].a + blocks[n].size,
                         blocks[n].b + blocks[n].size)

get_opcodes(a, b) ==
    opcodes_from(matching_blocks(a, b, 0, Len(a), 0, Len(b))
                     \o <<Block(Len(a), Len(b), 0)>>, 1, 0, 0)

\* one operation of align_tokens; old and new are tokens, or lists of tokens
\* when is_list (line 69)
Op(tag, old, new, is_list) == [tag |-> tag, old |-> old, new |-> new, is_list |-> is_list]

\* lines 60-75 for one opcode
ops_of(old, new, c) ==
    IF c.tag = "equal" THEN [k \in 1..(c.i2 - c.i1) |-> Op("equal", old[c.i1 + k], <<>>, FALSE)]
    ELSE IF c.tag = "replace"
    THEN IF c.i2 - c.i1 = c.j2 - c.j1
         THEN [k \in 1..(c.i2 - c.i1) |-> Op("replace", old[c.i1 + k], new[c.j1 + k], FALSE)]
         ELSE <<Op("replace", Slice(old, c.i1, c.i2), Slice(new, c.j1, c.j2), TRUE)>>
    ELSE IF c.tag = "delete"
    THEN [k \in 1..(c.i2 - c.i1) |-> Op("delete", old[c.i1 + k], <<>>, FALSE)]
    ELSE [k \in 1..(c.j2 - c.j1) |-> Op("insert", new[c.j1 + k], <<>>, FALSE)]

RECURSIVE ops_from(_, _, _, _)
ops_from(old, new, codes, n) ==
    IF n > Len(codes) THEN <<>>
    ELSE ops_of(old, new, codes[n]) \o ops_from(old, new, codes, n + 1)

align_tokens(old, new) == ops_from(old, new, get_opcodes(old, new), 1)

\* the value None
None == <<"<None>">>

RECURSIVE skip_space(_, _)
skip_space(content, idx) ==
    IF idx < Len(content) /\ isspace(content[idx + 1]) THEN skip_space(content, idx + 1)
    ELSE idx

\* the loop of find_token_positions from the n-th token on, idx as in the code;
\* found is false when the function returns None
RECURSIVE positions_from(_, _, _, _, _)
RECURSIVE positions_at(_, _, _, _, _)
positions_at(content, tokens, n, acc, pos) ==
    IF pos = -1 THEN [found |-> FALSE, positions |-> <<>>]
    ELSE positions_from(content, tokens, n + 1,
                        Append(acc, <<pos, pos + Len(tokens[n])>>), pos + Len(tokens[n]))

positions_from(content, tokens, n, acc, idx) ==
    IF n > Len(tokens) THEN [found |-> TRUE, positions |-> acc]
    ELSE positions_at(content, tokens, n, acc,
                      find(content, tokens[n], skip_space(content, idx)))

find_token_positions(content, tokens) == positions_from(content, tokens, 1, <<>>, 0)

\* whether the pattern matches content_now at pos: character by character,
\* with "." of a regular expression matching any character (content_now holds
\* no line break)
match_at(content_now, patt, pos, use_regex) ==
    /\ pos + Len(patt) <= Len(content_now)
    /\ \A k \in 1..Len(patt) :
         \/ patt[k] = content_now[pos + k]
         \/ use_regex /\ patt[k] = "."

\* the first match at or after start, or -1
next_match(content_now, patt, start, use_regex) ==
    LET at == {p \in start..(Len(content_now) - Len(patt)) :
                  match_at(content_now, patt, p, use_regex)}
    IN  IF at = {} THEN -1 ELSE CHOOSE p \in at : \A q \in at : p <= q

\* lines 110-116: finditer goes on after the end of a match, the find loop
\* one character after its start
RECURSIVE matches_from(_, _, _, _)
matches_from(content_now, patt, pos, use_regex) ==
    IF pos = -1 THEN <<>>
    ELSE <<<<pos, pos + Len(patt)>>>>
         \o matches_from(content_now, patt,
                         next_match(content_now, patt,
                                    IF use_regex THEN pos + Len(patt) ELSE pos + 1, use_regex),
                         use_regex)

find_matches(content, search, use_regex) ==
    matches_from(remove_ws(content), remove_ws(search),
                 next_match(remove_ws(content), remove_ws(search), 0, use_regex), use_regex)

\* the positions of the characters that are not white space, in order
RECURSIVE index_map_from(_, _)
index_map_from(content, i) ==
    IF i >= Len(content) THEN <<>>
    ELSE (IF isspace(content[i + 1]) THEN <<>> ELSE <<i>>) \o index_map_from(content, i + 1)

build_index_reverse_map(content) == index_map_from(content, 0)

\* str.splitlines(keepends=False) for the line break "\n"
RECURSIVE splitlines_from(_, _, _)
splitlines_from(s, i, cur) ==
    IF i > Len(s) THEN (IF cur = <<>> THEN <<>> ELSE <<cur>>)
    ELSE IF s[i] = "\n" THEN <<cur>> \o splitlines_from(s, i + 1, <<>>)
    ELSE splitlines_from(s, i + 1, Append(cur, s[i]))

splitlines(s) == splitlines_from(s, 1, <<>>)

\* unified_diff of the two line lists: no line when they are equal, else the
\* header with the file name and the lines of both sides
generate_diff_lines(original, modified, filename) ==
    IF splitlines(original) = splitlines(modified) THEN <<>>
    ELSE <<[fromfile |-> filename, removed |-> splitlines(original),
            added |-> splitlines(modified)]>>

\* the exceptions process_file ends with: none, the OSError of a failing
\* open(path, "w"), the TypeError of content.find(list)
NoError == "<none>"

OSError == "OSError"

TypeError == "TypeError"

\* what process_file hands back: the returned value (None or a result), the
\* text it wrote to the file (None when it wrote nothing) and the exception it
\* ended with
Outcome(result, written, raised) == [result |-> result, written |-> written, raised |-> raised]

Diff(lines) == [present |-> TRUE, lines |-> lines]

NoDiff == [present |-> FALSE, lines |-> <<>>]

Result(path, preview, replacements, diff) ==
    [none |-> FALSE, file |-> path, preview |-> preview, replacements |-> replacements,
     diff |-> diff]

\* process_file returned None
NoFile ==
    [none |-> TRUE, file |-> File(<<>>, "", ""), preview |-> FALSE, replacements |-> 0,
     diff |-> NoDiff]

\* the write happens also in a preview run
finish_file_unguarded(path, content, modified, replacements, preview, writable) ==
    IF ~writable THEN Outcome(NoFile, None, OSError)
    ELSE Outcome(Result(path, preview, replacements,
                        IF preview THEN Diff(generate_diff_lines(content, modified, path))
                        ELSE NoDiff), modified, NoError)

\* lines 188-200 and 218-230: in preview the diff is returned before any
\* write; else the file is written, and a failing open(path, "w") raises
finish_file(path, content, modified, replacements, preview, writable) ==
    IF preview
    THEN Outcome(Result(path, TRUE, replacements,
                        Diff(generate_diff_lines(content, modified, path))), None, NoError)
    ELSE IF ~writable THEN Outcome(NoFile, None, OSError)
    ELSE Outcome(Result(path, FALSE, replacements, NoDiff), modified, NoError)

\* modified[lo:hi] = new_tok on the list of characters
slice_assign(modified, lo, hi, new_tok) ==
    Slice(modified, 0, lo) \o new_tok \o Slice(modified, hi, Len(modified))

\* the loop of lines 179-184 from the n-th operation on; a replace operation
\* that holds lists makes content.find raise TypeError
RECURSIVE apply_ops(_, _, _, _)
RECURSIVE replace_at(_, _, _, _, _)
replace_at(ops, n, content, modified, pos) ==
    apply_ops(ops, n + 1, content,
              IF pos # -1
              THEN slice_assign(modified, pos, pos + Len(ops[n].old), ops[n].new)
              ELSE modified)

apply_ops(ops, n, content, modified) ==
    IF n > Len(ops) THEN [raised |-> FALSE, modified |-> modified]
    ELSE IF ops[n].tag # "replace" THEN apply_ops(ops, n + 1, content, modified)
    ELSE IF ops[n].is_list THEN [raised |-> TRUE, modified |-> modified]
    ELSE replace_at(ops, n, content, modified, find(content, ops[n].old, 0))

minimal_finish(path, content, r, preview, writable) ==
    IF r.raised THEN Outcome(NoFile, None, TypeError)
    ELSE finish_file(path, content, r.modified, 1, preview, writable)

\* lines 163-200
minimal_mode(path, content, search, replace, preview, writable) ==
    IF find(remove_ws(content), remove_ws(search), 0) = -1 THEN Outcome(NoFile, None, NoError)
    ELSE IF \/ ~find_token_positions(content, tokenize(search)).found
               \/ find_token_positions(content, tokenize(search)).positions = <<>>
    THEN Outcome(NoFile, None, NoError)
    ELSE minimal_finish(path, content,
                        apply_ops(align_tokens(tokenize(search), tokenize(replace)),
                                  1, content, content),
                        preview, writable)

\* the loop of lines 213-216 from the n-th match down to the first
RECURSIVE replace_matches(_, _, _, _, _)
replace_matches(matches, n, mapping, replace, modified) ==
    IF n = 0 THEN modified
    ELSE replace_matches(matches, n - 1, mapping, replace,
                         Slice(modified, 0, mapping[matches[n][1] + 1])
                         \o replace
                         \o Slice(modified, mapping[matches[n][2]] + 1, Len(modified)))

full_finish(path, content, matches, replace, preview, writable) ==
    IF matches = <<>> THEN Outcome(NoFile, None, NoError)
    ELSE finish_file(path, content,
                     replace_matches(matches, Len(matches),
                                     build_index_reverse_map(content), replace, content),
                     Len(matches), preview, writable)

\* lines 205-230
full_mode(path, content, search, replace, use_regex, preview, writable) ==
    full_finish(path, content, find_matches(content, search, use_regex), replace,
                preview, writable)

\* process_file on a file that holds content; readable is false when open or
\* the decoding raises
process_file(path, content, readable, writable, search, replace, use_regex, preview, minimal_diff) ==
    IF ~readable \/ has_nul(content) THEN Outcome(NoFile, None, NoError)
    ELSE IF minimal_diff THEN minimal_mode(path, content, search, replace, preview, writable)
    ELSE full_mode(path, content, search, replace, use_regex, preview, writable)

(***************************************************************************)
(* The search-and-replace run: run_process and process_directory_parallel  *)
(***************************************************************************)
\* str.strip
RECURSIVE lstrip(_)
lstrip(s) == IF s # <<>> /\ isspace(s[1]) THEN lstrip(Tail(s)) ELSE s

RECURSIVE rstrip(_)
rstrip(s) == IF s # <<>> /\ isspace(s[Len(s)]) THEN rstrip(SubSeq(s, 1, Len(s) - 1)) ELSE s

strip(s) == rstrip(lstrip(s))

\* the width of the semaphore (workers=8 at the call of line 351)
Workers == 8

\* the values of the two text inputs
SearchInputs ==
    {[search |-> <<"a", " ", "=", " ", "1", " ">>, replace |-> <<"a", " ", "=", " ", "2">>],
     [search |-> <<"a", "a">>, replace |-> <<" ", "b">>],
     [search |-> <<"a", " ", "b">>, replace |-> <<"c">>],
     [search |-> <<"a", ".">>, replace |-> <<>>],
     [search |-> <<" ">>, replace |-> <<"x">>]}

\* the values of the extension filter: ext_raw.split(",") stripped, [] when empty
ExtChoices == {<<>>, <<".txt">>}

\* ext_ok (lines 250-251): an extension of the list is the extension of the file name
ext_ok(path, extensions) ==
    extensions = <<>> \/ \E k \in 1..Len(extensions) : extensions[k] = path.ext

\* the tasks of lines 253-267 for the files from the n-th of the walk on
RECURSIVE tasks_from(_, _, _)
tasks_from(walk, n, extensions) ==
    IF n > Len(walk) THEN <<>>
    ELSE (IF ext_ok(walk[n], extensions)
          THEN <<[path |-> walk[n], st |-> "created", result |-> NoFile,
                  error |-> NoError]>> ELSE <<>>)
         \o tasks_from(walk, n + 1, extensions)

SrIdle ==
    [pc |-> "idle", preview |-> FALSE, minimal_diff |-> FALSE, use_regex |-> FALSE,
     search |-> <<>>, replace |-> <<>>, unreadable |-> {}, unwritable |-> {},
     tasks |-> <<>>, results |-> <<>>, shown |-> NoDiff, notes |-> <<>>,
     workers |-> Workers]

\* Button.Pressed #run: run_process up to the creation of the tasks (line 267)
SrRun(preview) ==
    /\ sr.pc = "idle"
    /\ lu.pc = "idle"
    /\ \E root_dir \in {None, SrRoot}, inp \in SearchInputs, extensions \in ExtChoices,
          use_regex \in BOOLEAN, minimal_diff \in BOOLEAN,
          unreadable \in {{}, {T1}}, unwritable \in {{}, {T2}} :
         sr' = IF root_dir = None
               THEN [sr EXCEPT !.pc = "done", !.preview = preview,
                       !.notes = Append(@, Note("warning", "Select a directory first.", <<>>))]
               ELSE IF strip(inp.search) = <<>>
               THEN [sr EXCEPT !.pc = "done", !.preview = preview,
                       !.notes = Append(@, Note("warning", "Search string required.", <<>>))]
               ELSE [sr EXCEPT !.pc = "gather", !.preview = preview,
                       !.minimal_diff = minimal_diff, !.use_regex = use_regex,
                       !.search = strip(inp.search), !.replace = strip(inp.replace),
                       !.unreadable = unreadable, !.unwritable = unwritable,
                       !.tasks = tasks_from(SrWalkOrder, 1, extensions),
                       !.workers = Workers,
                       !.notes = Append(@, Note("information", "Running",
                                                <<preview, minimal_diff>>))]
    /\ UNCHANGED <<pf, parked, pv, rw, br, disk, disk0, lu, cmds>>

Holding == {t \in 1..Len(sr.tasks) : sr.tasks[t].st = "running"}

\* asyncio.Semaphore(workers) (line 247): acquire goes through while fewer
\* than `workers` tasks hold the semaphore
sem_free(held, workers) == held < workers

\* `async with sem` (line 261): the tasks reach the semaphore in the order of
\* their creation, and one enters while fewer than `workers` hold it
SrAcquire ==
    /\ sr.pc \in {"gather", "failed"}
    /\ \E t \in 1..Len(sr.tasks) :
         /\ sr.tasks[t].st = "created"
         /\ \A u \in 1..(t - 1) : sr.tasks[u].st # "created"
         /\ sem_free(Cardinality(Holding), sr.workers)
         /\ sr' = [sr EXCEPT !.tasks[t].st = "running"]
    /\ UNCHANGED <<pf, parked, pv, rw, br, disk, disk0, lu, cmds>>

\* the end of process_file in its thread: the file is written when the call
\* wrote, the semaphore is released, and the task holds the value or the
\* exception
thread_done(t, out) ==
    /\ sr' = [sr EXCEPT !.tasks[t].st = IF out.raised # NoError THEN "raised" ELSE "done",
                        !.tasks[t].error = out.raised,
                        !.tasks[t].result = out.result]
    /\ disk' = IF out.written = None THEN disk
               ELSE [disk EXCEPT ![sr.tasks[t].path] = out.written]

\* asyncio.to_thread(process_file, ...) for one task (lines 262-265)
SrThread ==
    /\ sr.pc \in {"gather", "failed"}
    /\ \E t \in Holding :
         thread_done(t, process_file(sr.tasks[t].path, disk[sr.tasks[t].path],
                                     sr.tasks[t].path \notin sr.unreadable,
                                     sr.tasks[t].path \notin sr.unwritable,
                                     sr.search, sr.replace, sr.use_regex,
                                     sr.preview, sr.minimal_diff))
    /\ UNCHANGED <<pf, parked, pv, rw, br, disk0, lu, cmds>>

\* the values of the tasks from the last task to the first
RECURSIVE kept_results_reversed(_, _)
kept_results_reversed(tasks, n) ==
    IF n > Len(tasks) THEN <<>>
    ELSE kept_results_reversed(tasks, n + 1)
         \o (IF tasks[n].result.none THEN <<>> ELSE <<tasks[n].result>>)

\* [r for r in results if r] on the values of the tasks, in the order of the tasks
RECURSIVE kept_results(_, _)
kept_results(tasks, n) ==
    IF n > Len(tasks) THEN <<>>
    ELSE (IF tasks[n].result.none THEN <<>> ELSE <<tasks[n].result>>)
         \o kept_results(tasks, n + 1)

\* lines 355-380 on the list gather returned
show_results(results) ==
    IF sr.preview /\ results # <<>>
    THEN [sr EXCEPT !.pc = "done", !.results = results, !.shown = results[1].diff]
    ELSE [sr EXCEPT !.pc = "done", !.results = results,
            !.notes = Append(@, Note("success", "Completed", Len(results)))]

\* asyncio.gather returns when every task has returned (lines 269-270)
SrGather ==
    /\ sr.pc = "gather"
    /\ \A t \in 1..Len(sr.tasks) : sr.tasks[t].st = "done"
    /\ sr' = show_results(kept_results(sr.tasks, 1))
    /\ UNCHANGED <<pf, parked, pv, rw, br, disk, disk0, lu, cmds>>

\* asyncio.gather raises the exception of the first task that raised: the
\* run ends without a result; the other tasks are not cancelled by gather
SrFail ==
    /\ sr.pc = "gather"
    /\ \E t \in 1..Len(sr.tasks) : sr.tasks[t].st = "raised"
    /\ sr' = [sr EXCEPT !.pc = "failed"]
    /\ UNCHANGED <<pf, parked, pv, rw, br, disk, disk0, lu, cmds>>

\* the contents a file of the search-and-replace tree can have before a run
SrTexts(path) ==
    IF path = T1 THEN {<<"a", "a", "a">>, <<"a", " ", " ", "=", "\n", "1">>}
    ELSE IF path = T2 THEN {<<"a", " ", "b", " ", "a", "b">>, <<"a", "a", NUL>>}
    ELSE {<<"a", "=", "1", " ", "a", "a">>}

\* trees in which the tools find nothing
IdleLu == [f \in Files |-> <<Other>>]

IdleSr == [f \in SrFiles |-> <<>>]

(***************************************************************************)
(* process_file called on one file: pf holds the arguments and the file's  *)
(* content, then what the call handed back                                 *)
(***************************************************************************)
MaxContent == 4

PfIdle ==
    [pc |-> "idle", content |-> <<>>, search |-> <<>>, replace |-> <<>>, use_regex |-> FALSE,
     preview |-> FALSE, minimal_diff |-> FALSE, out |-> Outcome(NoFile, None, NoError)]

ContentChars == {"a", "b", " "}

Contents == UNION {[1..n -> ContentChars] : n \in 0..MaxContent}

\* the search and replace texts of the calls
FilePairs ==
    {[search |-> <<"a", " ", "b">>, replace |-> <<"c", "c", " ", "d">>],
     [search |-> <<"a", " ", "b">>, replace |-> <<"c", " ", "d">>],
     [search |-> <<"a", " ", "b">>, replace |-> <<"c">>],
     [search |-> <<"a", "a">>, replace |-> <<"b">>],
     [search |-> <<"a">>, replace |-> <<"a">>],
     [search |-> <<"a">>, replace |-> <<"b", "b">>]}

\* process_file(path, search, replace, use_regex, preview, minimal_diff) on a
\* readable and writable file s/a.txt that holds pf.content (lines 142-230)
ProcessFile ==
    /\ pf.pc = "call"
    /\ pf' = [pf EXCEPT !.pc = "ended",
                        !.out = process_file(T1, pf.content, TRUE, TRUE, pf.search, pf.replace,
                                             pf.use_regex, pf.preview, pf.minimal_diff)]
    /\ UNCHANGED <<parked, pv, rw, br, disk, disk0, lu, cmds, sr>>

(***************************************************************************)
(* Several triggers. Every Button.Pressed starts a worker of its own       *)
(* (@work, lines 322-323 and library_upgrade.py lines 360-368); the        *)
(* workers are coroutines of one event loop, which runs another of them    *)
(* whenever the running one awaits. lu and sr are the run of the worker    *)
(* the event loop is running, parked the run of the worker that waits.     *)
(***************************************************************************)
NotParked == [lu |-> LuIdle, sr |-> SrIdle]

\* the pcs at which _upgrade waits for a command of git_workflow (the awaits
\* of lines 251-285, inside the await of line 492)
WorkflowPcs == {"resolve", "checkout", "add", "commit", "push", "pr"}

\* the running worker is at an await: line 492, or line 269 of
\* search_replace.py
AtAwait == lu.pc \in WorkflowPcs \/ sr.pc = "gather"

\* the running worker has returned or raised
Ended == lu.pc \in {"done", "crashed", "raised"} \/ sr.pc \in {"done", "failed"}

\* a button is pressed while the worker of an earlier trigger awaits: no
\* handler tests whether a run is in progress, and @work is used without
\* exclusive, so a second worker starts beside the first
Press ==
    /\ parked = NotParked
    /\ AtAwait
    /\ parked' = [lu |-> lu, sr |-> sr]
    /\ lu' = LuIdle
    /\ sr' = SrIdle
    /\ UNCHANGED <<pf, pv, rw, br, disk, disk0, cmds>>

\* the running worker awaits or has ended, and the event loop goes on with
\* the other worker
Resume ==
    /\ parked # NotParked
    /\ AtAwait \/ Ended
    /\ parked' = [lu |-> lu, sr |-> sr]
    /\ lu' = parked.lu
    /\ sr' = parked.sr
    /\ UNCHANGED <<pf, pv, rw, br, disk, disk0, cmds>>

LuDisks ==
    {d \in [Files -> UNION {FileTexts(f) : f \in Files}] : \A f \in Files : d[f] \in FileTexts(f)}

SrDisks ==
    {d \in [SrFiles -> UNION {SrTexts(f) : f \in SrFiles}] :
        \A f \in SrFiles : d[f] \in SrTexts(f)}

(***************************************************************************)
(* process_directory_parallel called with a pool width `workers` of its    *)
(* own (the parameter of line 245), from the creation of the tasks on      *)
(***************************************************************************)
InitFan ==
    /\ pf = PfIdle /\ pv = PvIdle /\ parked = NotParked /\ rw = RwIdle /\ br = BrIdle
    /\ lu = LuIdle
    /\ cmds = <<>>
    /\ \E b \in SrDisks :
         disk = [f \in Files \cup SrFiles |-> IF f \in Files THEN IdleLu[f] ELSE b[f]]
    /\ disk0 = disk
    /\ \E inp \in SearchInputs, extensions \in ExtChoices, preview \in BOOLEAN,
          minimal_diff \in BOOLEAN, unwritable \in {{}, {T2}}, workers \in 1..MaxWorkers :
         sr = [SrIdle EXCEPT
                 !.pc = "gather", !.preview = preview, !.minimal_diff = minimal_diff,
                 !.search = strip(inp.search), !.replace = strip(inp.replace),
                 !.unwritable = unwritable, !.workers = workers,
                 !.tasks = tasks_from(SrWalkOrder, 1, extensions)]
    /\ sr.search # <<>>

\* one tree on which both tools find changes: a dependency in the build
\* file of the repository w/r1, and the search text in s/a.txt
InitTriggers ==
    /\ pf = PfIdle /\ pv = PvIdle /\ parked = NotParked /\ rw = RwIdle /\ br = BrIdle
    /\ lu = LuIdle
    /\ sr = SrIdle
    /\ cmds = <<>>
    /\ disk = [f \in Files \cup SrFiles |->
                 IF f = F1 THEN <<Lit(GroupX, "%", ArtY, V123)>>
                 ELSE IF f \in Files THEN <<Other>>
                 ELSE IF f = T1 THEN <<"a", "a", "a">>
                 ELSE <<>>]
    /\ disk0 = disk

\* the inputs of the runs of SpecTriggers: one library, the search text "aa",
\* every file readable and writable, and every command exits with 0
TriggerInputs ==
    /\ lu.libs \in {<<>>, <<LibSpec(GroupX, ArtY, V130)>>}
    /\ lu.unreadable = {}
    /\ ~lu.wf.list_failed
    /\ \A k \in 1..Len(cmds) : cmds[k].code = 0
    /\ sr.search \in {<<>>, <<"a", "a">>}
    /\ sr.unreadable = {} /\ sr.unwritable = {}
    /\ ~sr.use_regex /\ ~sr.minimal_diff

NextFan == SrAcquire \/ SrThread \/ SrGather \/ SrFail

\* the two trees before a run: one of them varies, the other holds the
\* contents on which its tool finds the least
InitMain ==
    /\ \E a \in LuDisks \cup {IdleLu}, b \in SrDisks \cup {IdleSr} :
         /\ a = IdleLu \/ b = IdleSr
         /\ disk = [f \in Files \cup SrFiles |-> IF f \in Files THEN a[f] ELSE b[f]]
    /\ disk0 = disk
    /\ lu = LuIdle
    /\ cmds = <<>>
    /\ sr = SrIdle

Next ==
    \/ UpgradeStart(TRUE)
    \/ UpgradeStart(FALSE)
    \/ WriteGroup
    \/ ResolveBranch
    \/ Checkout
    \/ Stage
    \/ Commit
    \/ Push
    \/ CreatePr
    \/ SrRun(TRUE)
    \/ SrRun(FALSE)
    \/ SrAcquire
    \/ SrThread
    \/ SrGather
    \/ SrFail

NextTriggers == (Next /\ TriggerInputs') \/ Press \/ Resume

Init == pf = PfIdle /\ pv = PvIdle /\ parked = NotParked /\ rw = RwIdle /\ br = BrIdle /\ InitMain

(***************************************************************************)
(* The rewriter applied to one text for one library, as _upgrade applies   *)
(* it (lines 407-426): the direct mode, then the variable mode on the      *)
(* direct mode's output.                                                   *)
(***************************************************************************)
MainIdle ==
    /\ disk = [f \in Files \cup SrFiles |-> IF f \in Files THEN IdleLu[f] ELSE IdleSr[f]]
    /\ disk0 = disk
    /\ lu = LuIdle
    /\ cmds = <<>>
    /\ sr = SrIdle

InitFile ==
    /\ MainIdle
    /\ pv = PvIdle /\ parked = NotParked /\ rw = RwIdle /\ br = BrIdle
    /\ pf \in {[PfIdle EXCEPT !.pc = "call", !.content = c, !.search = p.search,
                              !.replace = p.replace, !.use_regex = re, !.preview = pre,
                              !.minimal_diff = md] :
                c \in Contents, p \in FilePairs, re \in BOOLEAN, pre \in BOOLEAN,
                md \in BOOLEAN}

InitBranch ==
    /\ MainIdle
    /\ pf = PfIdle /\ pv = PvIdle /\ parked = NotParked
    /\ rw = RwIdle
    /\ br \in {[pc |-> "input", base |-> b, env |-> e, branch |-> <<>>] :
                 b \in Bases, e \in UNION {Envs(x) : x \in Bases}}
    /\ br.env \in Envs(br.base)

SpecBranch == InitBranch /\ [][UniqueBranch]_<<pf, parked, pv, rw, br, disk, disk0, lu, cmds, sr>>

InitRewrite ==
    /\ MainIdle
    /\ pf = PfIdle /\ pv = PvIdle /\ parked = NotParked
    /\ br = BrIdle
    /\ rw \in {[pc |-> "input", text |-> t, new |-> n, thr |-> th, skip |-> sk,
             direct |-> NoResult, var |-> NoResult] :
            t \in Texts, n \in NewVersions, th \in BOOLEAN, sk \in BOOLEAN}

ApplyDirect ==
    /\ rw.pc = "input"
    /\ LET r == lossless_upgrade(rw.text, GroupX, ArtY, rw.new, rw.thr, rw.skip)
       IN  rw' = [rw EXCEPT !.pc = IF r.raised THEN "raised" ELSE "direct",
                            !.direct = r]
    /\ UNCHANGED <<pf, parked, pv, br, disk, disk0, lu, cmds, sr>>

ApplyVariable ==
    /\ rw.pc = "direct"
    /\ \E order \in Orders(var_names_of(rw.direct.text, GroupX, ArtY)) :
         LET r == lossless_upgrade_variable_refs(rw.direct.text, GroupX, ArtY, rw.new,
                                                 rw.thr, rw.skip, order)
         IN  rw' = [rw EXCEPT !.pc = IF r.raised THEN "raised" ELSE "var",
                              !.var = r]
    /\ UNCHANGED <<pf, parked, pv, br, disk, disk0, lu, cmds, sr>>

NextRewrite == ApplyDirect \/ ApplyVariable

(***************************************************************************)
(* parse_version applied to one string, and the comparison of the gates    *)
(* (lines 69-72) applied to parsed versions                                *)
(***************************************************************************)
\* the characters of the strings: decimal digits, the two separators of
\* parse_version, a letter, and a digit that is no decimal digit
VersionChars == {"1", "2", ".", "-", "a", Sup2}

VersionStrings == UNION {[1..n -> VersionChars] : n \in 0..MaxVerLen}

\* the versions major.minor.patch with every component at most MaxPart
Dotted ==
    {<<DigitSeq[x + 1], ".", DigitSeq[y + 1], ".", DigitSeq[z + 1]>> : x, y, z \in 0..MaxPart}

InitParse ==
    /\ MainIdle
    /\ rw = RwIdle
    /\ br = BrIdle
    /\ pf = PfIdle /\ pv = PvIdle /\ parked = NotParked

\* a call parse_version(v)
ParseVersion ==
    /\ pv.pc = "idle"
    /\ \E v \in VersionStrings :
         pv' = IF parse_version_raises(v)
               THEN [pv EXCEPT !.pc = "raised", !.v = v]
               ELSE [pv EXCEPT !.pc = "parsed", !.v = v, !.value = parse_version(v)]
    /\ UNCHANGED <<pf, parked, rw, br, disk, disk0, lu, cmds, sr>>

\* old_tuple > new_tuple (line 72) on the parsed versions a, b, c, pair by pair
Compare ==
    /\ pv.pc = "idle"
    /\ \E a, b, c \in Dotted :
         pv' = [pv EXCEPT
                  !.pc = "compared",
                  !.value = <<parse_version(a), parse_version(b), parse_version(c)>>,
                  !.cmp = [ab |-> TupleGT(parse_version(a), parse_version(b)),
                           ba |-> TupleGT(parse_version(b), parse_version(a)),
                           bc |-> TupleGT(parse_version(b), parse_version(c)),
                           ac |-> TupleGT(parse_version(a), parse_version(c))]]
    /\ UNCHANGED <<pf, parked, rw, br, disk, disk0, lu, cmds, sr>>

NextParse == ParseVersion \/ Compare

(***************************************************************************)
(* The loop over libs for one file (lines 400-429), one mode at a step:    *)
(* rw.given is the text the last mode was called with, rw.modified the     *)
(* variable `modified` of the loop.                                        *)
(***************************************************************************)
MaxModeSegs == 3

ModePool ==
    {Lit(GroupX, "%", ArtY, V123), Lit(GroupX, "%", ArtZ, V123),
     Ref(GroupX, "%%", ArtY, "mongoVersion"), Ref(GroupX, "%", ArtZ, "mongoVersion"),
     Val("mongoVersion", V123), Other}

ModeTexts == UNION {[1..n -> ModePool] : n \in 0..MaxModeSegs}

ModeLibs ==
    {<<LibSpec(GroupX, ArtY, V130)>>,
     <<LibSpec(GroupX, ArtY, V130), LibSpec(GroupX, ArtZ, V200)>>,
     <<LibSpec(GroupX, ArtY, V200), LibSpec(GroupX, ArtZ, V130)>>,
     <<LibSpec(GroupX, ArtY, V130), LibSpec(GroupX, ArtY, V100)>>}

InitModes ==
    /\ MainIdle
    /\ pf = PfIdle /\ pv = PvIdle /\ parked = NotParked
    /\ br = BrIdle
    /\ rw \in {[pc |-> "direct", original |-> t, libs |-> libs, thr |-> th, skip |-> sk,
                 k |-> 1, modified |-> t, given |-> t, mode |-> "none"] :
                t \in ModeTexts, libs \in ModeLibs, th \in BOOLEAN, sk \in BOOLEAN}

\* lines 407-414: modified = lossless_upgrade(modified, ...) for libs[k]
ModeDirect ==
    /\ rw.pc = "direct"
    /\ LET lib == rw.libs[rw.k]
           d == lossless_upgrade(rw.modified, lib.group, lib.artifact, lib.version,
                                 rw.thr, rw.skip)
       IN  rw' = IF d.raised THEN [rw EXCEPT !.pc = "raised"]
                 ELSE [rw EXCEPT !.pc = "variable", !.mode = "direct",
                                 !.given = rw.modified, !.modified = d.text]
    /\ UNCHANGED <<pf, parked, pv, br, disk, disk0, lu, cmds, sr>>

\* lines 419-426: modified = lossless_upgrade_variable_refs(modified, ...) for
\* libs[k], then the next library
ModeVariable ==
    /\ rw.pc = "variable"
    /\ \E idRank \in Orders(Idents) :
         LET lib == rw.libs[rw.k]
             v == lossless_upgrade_variable_refs(rw.modified, lib.group, lib.artifact,
                      lib.version, rw.thr, rw.skip,
                      OrderBy(var_names_of(rw.modified, lib.group, lib.artifact), idRank))
         IN  rw' = IF v.raised THEN [rw EXCEPT !.pc = "raised"]
                   ELSE [rw EXCEPT !.pc = IF rw.k < Len(rw.libs) THEN "direct" ELSE "done",
                                   !.mode = "variable", !.k = @ + 1,
                                   !.given = rw.modified, !.modified = v.text]
    /\ UNCHANGED <<pf, parked, pv, br, disk, disk0, lu, cmds, sr>>

NextModes == ModeDirect \/ ModeVariable

vars == <<pf, parked, pv, rw, br, disk, disk0, lu, cmds, sr>>

SpecRewrite == InitRewrite /\ [][NextRewrite]_vars

\* every thread of asyncio.to_thread runs to its end: weak fairness of
\* SrThread, with ENABLED <<SrThread>>_vars written out (the step is possible
\* exactly while a task holds the semaphore)
ThreadsReturn ==
    \/ []<>~(sr.pc \in {"gather", "failed"} /\ Holding # {})
    \/ []<><<SrThread>>_vars

\* a task enters the semaphore while run_process awaits gather
SrAcquireInRun == sr.pc = "gather" /\ SrAcquire

\* while run_process awaits gather the event loop runs every task that is
\* ready (a task the semaphore lets in enters), and every thread that was
\* started returns; once the exception of a task has left run_process
\* (line 348) the worker of @work (line 323) has failed, and nothing in the
\* code keeps the event loop running for the tasks that still wait
SpecFan == InitFan /\ [][NextFan]_vars /\ WF_vars(SrAcquireInRun) /\ ThreadsReturn

SpecModes == InitModes /\ [][NextModes]_vars

SpecFile == InitFile /\ [][ProcessFile]_vars

SpecParse == InitParse /\ [][NextParse]_vars

SpecTriggers == InitTriggers /\ [][NextTriggers]_vars

Spec == Init /\ [][Next]_vars

(***************************************************************************)
(* Properties of the rewriter, checked under SpecRewrite                   *)
(***************************************************************************)
\* the two policy gates of the specification, on the raw version strings
GateSkips(old, new, onlyDowngradeProtect, skipMajor) ==
    \/ onlyDowngradeProtect /\ TupleGT(parse_version(old), parse_version(new))
    \/ skipMajor /\ parse_version(new)[1] > parse_version(old)[1]

DirectMatches(text) == {i \in 1..Len(text) : DirectMatch(text[i], GroupX, ArtY)}

\* the indices of the bindings the variable mode resolves in text
BoundAt(text) ==
    {val_search(text, id) : id \in var_names_of(text, GroupX, ArtY)} \ {0}

\* every matched literal and every bound literal of the target library holds version v
AllAtVersion(text, v) ==
    /\ \A i \in DirectMatches(text) : text[i].v = v
    /\ \A i \in BoundAt(text) : text[i].v = v

\* C8: idempotence of the rewriter: when every matched dependency literal and
\* every bound variable literal of the target library already holds the target
\* version, the rewriter returns changed = false and the text unchanged, under
\* every setting of the two policy flags.
C8_Idempotent ==
    (rw.pc = "var" /\ AllAtVersion(rw.text, rw.new)) =>
        /\ rw.direct.changed = FALSE
        /\ rw.var.changed = FALSE
        /\ rw.var.text = rw.text

\* C9: lossless skip: a match that a policy gate skips is identical in the
\* output and the input, also when other matches of the same text are
\* rewritten; when every match is skipped the returned text is the input and
\* changed = false. Stated for the direct mode on its input and for the
\* variable mode on its input (the direct mode's output).
C9_LosslessSkip ==
    /\ rw.pc \in {"direct", "var"} =>
         /\ Len(rw.direct.text) = Len(rw.text)
         /\ \A i \in DirectMatches(rw.text) :
              GateSkips(rw.text[i].v, rw.new, rw.thr, rw.skip) =>
                  rw.direct.text[i] = rw.text[i]
         /\ (\A i \in DirectMatches(rw.text) :
                 GateSkips(rw.text[i].v, rw.new, rw.thr, rw.skip)) =>
              (rw.direct.text = rw.text /\ rw.direct.changed = FALSE)
    /\ rw.pc = "var" =>
         /\ Len(rw.var.text) = Len(rw.direct.text)
         /\ \A i \in BoundAt(rw.direct.text) :
              GateSkips(rw.direct.text[i].v, rw.new, rw.thr, rw.skip) =>
                  rw.var.text[i] = rw.direct.text[i]
         /\ (\A i \in BoundAt(rw.direct.text) :
                 GateSkips(rw.direct.text[i].v, rw.new, rw.thr, rw.skip)) =>
              (rw.var.text = rw.direct.text /\ rw.var.changed = FALSE)

\* a text with two matches of the target library, one skipped by a gate and
\* one rewritten, after the direct mode has run
C9_Witness ==
    /\ rw.pc = "direct"
    /\ \E i, j \in DirectMatches(rw.text) :
         /\ GateSkips(rw.text[i].v, rw.new, rw.thr, rw.skip)
         /\ rw.text[i].sep = "%%"
         /\ ~GateSkips(rw.text[j].v, rw.new, rw.thr, rw.skip)
         /\ rw.direct.text[j] # rw.text[j]

\* C10: per match, the match is skipped when onlyDowngradeProtect is set and
\* parse(existing) > parse(new), otherwise skipped when skipMajor is set and
\* major(new) > major(existing), otherwise rewritten to the new version: a
\* match is rewritten if and only if neither gate applies, and changed is true
\* exactly when some match is rewritten.
C10_PolicyGates ==
    /\ rw.pc \in {"direct", "var"} =>
         /\ \A i \in DirectMatches(rw.text) :
              rw.direct.text[i] =
                 IF GateSkips(rw.text[i].v, rw.new, rw.thr, rw.skip)
                 THEN rw.text[i] ELSE [rw.text[i] EXCEPT !.v = rw.new]
         /\ rw.direct.changed <=>
              \E i \in DirectMatches(rw.text) :
                  ~GateSkips(rw.text[i].v, rw.new, rw.thr, rw.skip)
    /\ rw.pc = "var" =>
         /\ \A i \in BoundAt(rw.direct.text) :
              rw.var.text[i] =
                 IF GateSkips(rw.direct.text[i].v, rw.new, rw.thr, rw.skip)
                 THEN rw.direct.text[i] ELSE [rw.direct.text[i] EXCEPT !.v = rw.new]
         /\ rw.var.changed <=>
              \E i \in BoundAt(rw.direct.text) :
                  ~GateSkips(rw.direct.text[i].v, rw.new, rw.thr, rw.skip)

\* the specification's example: "org.x" % "y" % "1.2.3" with new version 2.0.0
\* and skipMajor is returned unchanged
C10_Witness ==
    /\ rw.pc = "direct"
    /\ rw.text = <<Lit(GroupX, "%", ArtY, V123)>>
    /\ rw.new = V200 /\ rw.skip /\ ~rw.thr
    /\ rw.direct.text = rw.text /\ rw.direct.changed = FALSE

\* C11: the direct-literal rewrite changes only the characters inside the
\* version literal: the output is the input with the version of each
\* rewritten match replaced by the new version; the group, the separator, the
\* artifact and the formatting of a rewritten match, every other match and
\* every text between the matches are unchanged and in the same order.
C11_OnlyVersionChanges ==
    rw.pc \in {"direct", "var"} =>
        /\ Len(rw.direct.text) = Len(rw.text)
        /\ \A i \in 1..Len(rw.text) :
             \/ rw.direct.text[i] = rw.text[i]
             \/ /\ i \in DirectMatches(rw.text)
                /\ rw.direct.text[i].v = rw.new
                /\ rw.direct.text[i].k = rw.text[i].k
                /\ rw.direct.text[i].g = rw.text[i].g
                /\ rw.direct.text[i].sep = rw.text[i].sep
                /\ rw.direct.text[i].a = rw.text[i].a
                /\ rw.direct.text[i].id = rw.text[i].id

\* the specification's example with other text before it: "org.x" %% "y" %
\* "1.2.3" with target 1.3.0 and no gate becomes "org.x" %% "y" % "1.3.0",
\* changed = true
C11_Witness ==
    /\ rw.pc = "direct"
    /\ rw.text = <<Other, Lit(GroupX, "%%", ArtY, V123)>>
    /\ rw.new = V130 /\ ~rw.thr /\ ~rw.skip
    /\ rw.direct.text = <<Other, Lit(GroupX, "%%", ArtY, V130)>>
    /\ rw.direct.changed

\* C12: the variable-indirection rewrite: when the target library is
\* declared with an identifier as version and the text holds a binding of that
\* identifier to a quoted literal, the rewriter replaces, gates permitting,
\* only the literal of that binding by the new version; the usage site and
\* everything else of the text are unchanged.
C12_OnlyBindingChanges ==
    rw.pc = "var" =>
        /\ Len(rw.var.text) = Len(rw.direct.text)
        /\ \A i \in 1..Len(rw.direct.text) :
             IF i \in BoundAt(rw.direct.text)
                /\ ~GateSkips(rw.direct.text[i].v, rw.new, rw.thr, rw.skip)
             THEN rw.var.text[i] = Val(rw.direct.text[i].id, rw.new)
             ELSE rw.var.text[i] = rw.direct.text[i]

\* the specification's example: the binding val mongoVersion = "1.2.3" with
\* the usage % mongoVersion and target 1.3.0: the binding is rewritten, the
\* usage site is untouched
C12_Witness ==
    /\ rw.pc = "var"
    /\ rw.direct.text = <<Val("mongoVersion", V123), Ref(GroupX, "%%", ArtY, "mongoVersion")>>
    /\ rw.new = V130
    /\ rw.var.text = <<Val("mongoVersion", V130), Ref(GroupX, "%%", ArtY, "mongoVersion")>>
    /\ rw.var.changed

(***************************************************************************)
(* Properties of parse_version and of the comparison, checked under        *)
(* SpecParse                                                               *)
(***************************************************************************)
\* C14: parse_version never fails: for every input string it returns a tuple
\* of exactly three integers, each of them >= 0.
C14_ParseNeverFails ==
    pv.pc \in {"parsed", "raised"} =>
        /\ pv.pc = "parsed"
        /\ Len(pv.value) = 3
        /\ \A i \in 1..3 : pv.value[i] \in Nat

\* a > b on triples as the specification states it: by major, then minor,
\* then patch
LexGreater(a, b) ==
    \/ a[1] > b[1]
    \/ a[1] = b[1] /\ a[2] > b[2]
    \/ a[1] = b[1] /\ a[2] = b[2] /\ a[3] > b[3]

\* C15: the comparison the policy gates use on parsed triples is a total
\* order: exactly one of a > b, a = b, b > a holds (trichotomy), a > b and
\* b > c give a > c (transitivity), and the order is the lexicographic one on
\* (major, minor, patch).
C15_TotalOrder ==
    pv.pc = "compared" =>
        /\ (pv.cmp.ab /\ ~pv.cmp.ba /\ pv.value[1] # pv.value[2])
           \/ (~pv.cmp.ab /\ pv.cmp.ba /\ pv.value[1] # pv.value[2])
           \/ (~pv.cmp.ab /\ ~pv.cmp.ba /\ pv.value[1] = pv.value[2])
        /\ (pv.cmp.ab /\ pv.cmp.bc) => pv.cmp.ac
        /\ pv.cmp.ab <=> LexGreater(pv.value[1], pv.value[2])
        /\ pv.cmp.ba <=> LexGreater(pv.value[2], pv.value[1])

\* three versions that differ only in the patch, then only in the minor
\* component: 1.1.2 > 1.1.1 and 1.2.0 > 1.1.2
C15_Witness ==
    /\ pv.pc = "compared"
    /\ pv.value = <<<<1, 2, 0>>, <<1, 1, 2>>, <<1, 1, 1>>>>
    /\ pv.cmp.ab /\ pv.cmp.bc /\ pv.cmp.ac /\ ~pv.cmp.ba

(***************************************************************************)
(* Properties of make_unique_branch_name, checked under SpecBranch         *)
(***************************************************************************)
Existing(env) == env.local \cup env.remote

\* C2: the returned name exists neither locally nor on the remote: it is the
\* base when the base is unused, otherwise base-N for the smallest N >= 2
\* such that base-N is unused.
C2_UniqueName ==
    br.pc = "done" =>
        /\ br.branch \notin Existing(br.env)
        /\ IF br.base \notin Existing(br.env) THEN br.branch = br.base
           ELSE \E n \in 2..(MaxSuffix + 1) :
                  /\ br.branch = Candidate(br.base, n)
                  /\ \A m \in 2..(n - 1) : Candidate(br.base, m) \in Existing(br.env)

\* the same statement for the repositories in which every list command exits 0
\* and no remote branch ends with "/" and the base: there it holds
C2_WhenListingAnswers ==
    (br.env.lfail = {} /\ br.env.rfail = {} /\ Nested(br.base) \notin br.env.remote)
        => C2_UniqueName

(***************************************************************************)
(* Properties of the apply and preview runs, checked under Spec            *)
(***************************************************************************)
RepoCmds(root) == SelectSeq(cmds, LAMBDA c : c.root = root)

ResultsOf(root) == SelectSeq(lu.results, LAMBDA r : r.root = root)

\* the external steps of the workflow of group g, in order
StepsOf(g) ==
    <<"checkout">> \o [w \in 1..Len(g.writes) |-> "add"] \o <<"commit", "push", "pr">>

\* the step a failure message names
MessageStep(kind) ==
    CASE kind = "Failed to create branch" -> "checkout"
      [] kind = "Failed to stage" -> "add"
      [] kind = "Failed to commit" -> "commit"
      [] kind = "Failed to push branch" -> "push"
      [] kind = "pushed but PR creation failed" -> "pr"
      [] OTHER -> "none"

GroupSteps(g, L, R) ==
    /\ Len(L) <= Len(StepsOf(g))
    /\ Len(R) <= 1
    /\ \A k \in 1..Len(L) :
         /\ L[k].cmd = StepsOf(g)[k]
         /\ L[k].cmd = "add" => L[k].arg = g.writes[k - 1].path
         /\ L[k].cmd = "push" => L[k].arg = L[1].arg
         /\ k < Len(L) => L[k].code = 0
    /\ (L # <<>> /\ L[Len(L)].code # 0) =>
         /\ Len(R) = 1
         /\ R[1].success = FALSE
         /\ R[1].message.text = L[Len(L)].err
         /\ MessageStep(R[1].message.kind) = L[Len(L)].cmd
    /\ (R # <<>> /\ R[1].success) => (Len(L) = Len(StepsOf(g)) /\ L[Len(L)].code = 0)
    /\ (R # <<>> /\ ~R[1].success) => (L # <<>> /\ L[Len(L)].code # 0)

\* C1: in the workflow of one repository the external steps run in the order
\* checkout -b, one add per changed file, commit, push, create-PR; a step is
\* invoked only if every earlier step exited 0; the first step that exits
\* non-zero ends the workflow with success = false and a message that carries
\* that step's captured stderr, and no later step is invoked.
C1_StepOrder ==
    \A gi \in 1..Len(lu.repo_writes) :
        GroupSteps(lu.repo_writes[gi], RepoCmds(lu.repo_writes[gi].root),
                   ResultsOf(lu.repo_writes[gi].root))

\* a workflow whose checkout, add and commit exited 0 and whose push failed
C1_Witness ==
    \E gi \in 1..Len(lu.repo_writes) :
        LET L == RepoCmds(lu.repo_writes[gi].root)
            R == ResultsOf(lu.repo_writes[gi].root)
        IN  /\ Len(L) >= 4
            /\ L[Len(L)].cmd = "push" /\ L[Len(L)].code # 0
            /\ Len(R) = 1 /\ ~R[1].success

RepoGroups == {gi \in 1..Len(lu.repo_writes) : lu.repo_writes[gi].root # NoRepo}

\* C3: every repository with changed files gets its workflow attempted and its
\* own outcome reported whatever the outcome of the other workflows: the loop
\* goes past a repository only with its outcome reported, a failed workflow
\* does not end the run, and a run that completes has one outcome for every
\* repository.
C3_EveryRepoReported ==
    /\ \A gi \in RepoGroups :
         (gi < lu.i \/ lu.pc = "done") =>
             /\ Len(ResultsOf(lu.repo_writes[gi].root)) = 1
             /\ RepoCmds(lu.repo_writes[gi].root) # <<>>
    /\ (lu.pc = "done" /\ lu.repo_writes # <<>>) => lu.i = Len(lu.repo_writes)

\* a completed run over two repositories in which the push of the first failed
\* and the second has its own outcome
C3_Witness ==
    /\ lu.pc = "done"
    /\ \E gi, gj \in RepoGroups :
         /\ gi < gj
         /\ ResultsOf(lu.repo_writes[gi].root)[1].message.kind = "Failed to push branch"
         /\ Len(ResultsOf(lu.repo_writes[gj].root)) = 1

\* C16: the workflow returns success = true only after the PR command exited
\* 0, and then its message holds the PR URL that command printed; when the
\* push exited 0 and the PR command exited non-zero it returns success = false
\* with the message that the branch was pushed but the PR creation failed, a
\* message no other failing step gives.
C16_OutcomeReporting ==
    \A k \in 1..Len(lu.results) :
        LET r == lu.results[k]
            L == RepoCmds(lu.results[k].root)
        IN  /\ L # <<>>
            /\ r.success <=> (L[Len(L)].cmd = "pr" /\ L[Len(L)].code = 0)
            /\ r.success =>
                 /\ r.message.kind = "PR created"
                 /\ r.message.text = L[Len(L)].out
                 /\ L[Len(L)].out # <<>>
            /\ (r.message.kind = "pushed but PR creation failed") <=>
                 /\ ~r.success
                 /\ Len(L) >= 2
                 /\ L[Len(L)].cmd = "pr" /\ L[Len(L)].code # 0
                 /\ L[Len(L) - 1].cmd = "push" /\ L[Len(L) - 1].code = 0

\* a completed run in which one repository got its PR and the other one was
\* pushed without a PR
C16_Witness ==
    /\ lu.pc = "done"
    /\ \E j, k \in 1..Len(lu.results) :
         /\ lu.results[j].success
         /\ lu.results[j].message.text # <<>>
         /\ ~lu.results[k].success
         /\ lu.results[k].message.kind = "pushed but PR creation failed"

\* C17: every external version-control invocation of the workflow, the local
\* and the remote branch-list of the name resolution included, is a failed
\* step when it exits non-zero: the workflow then returns success = false and
\* runs no further step. So no step after the resolution is reached when a
\* list command exited non-zero, and no command follows one that exited
\* non-zero.
C17_EveryInvocationChecked ==
    /\ lu.pc \in {"checkout", "add", "commit", "push", "pr"} => ~lu.wf.list_failed
    /\ \A k \in 1..Len(cmds) :
         cmds[k].code # 0 =>
             /\ \A j \in (k + 1)..Len(cmds) : cmds[j].root # cmds[k].root
             /\ \E r \in 1..Len(lu.results) :
                  lu.results[r].root = cmds[k].root /\ ~lu.results[r].success

\* C18: a file error never aborts the batch: a file that cannot be read,
\* decoded or written is passed over, every other eligible file is still
\* processed and the run completes normally, in both scans, in preview and in
\* apply mode. So no library-upgrade run ends at a failing write, and no task
\* of a search-and-replace run ends with the error of a failing write.
C18_FileErrorNeverAborts ==
    /\ lu.pc # "crashed"
    /\ \A t \in 1..Len(sr.tasks) : sr.tasks[t].error # OSError

InWorkflow == lu.pc \in {"resolve", "checkout", "add", "commit", "push", "pr"}

Written == {lu.written[k] : k \in 1..Len(lu.written)}

\* C4: in apply mode every changed file of every repository group is written
\* before the first git workflow step of any repository begins.
C4_AllWrittenFirst ==
    (InWorkflow \/ cmds # <<>>) =>
        \A gi \in 1..Len(lu.repo_writes) :
            \A w \in 1..Len(lu.repo_writes[gi].writes) :
                lu.repo_writes[gi].writes[w].path \in Written

\* the round of the apply loop for the group at position gi
BeginGroup(gi) == lu.i = gi /\ WriteGroup

\* C5: the workflows of distinct repositories are processed concurrently: while
\* the workflow of one repository is in progress, the workflow of another
\* repository that waits for its turn can begin.
C5_Concurrent ==
    \A gi \in RepoGroups :
        (InWorkflow /\ gi > lu.i) => ENABLED BeginGroup(gi)

NoGitAncestor(path) ==
    \A k \in 0..Len(path.dir) : SubSeq(path.dir, 1, k) \notin GitDirs

\* C6: the changed files without an ancestor directory that holds .git are
\* grouped in the no-repository bucket; in apply mode they are written, a
\* warning is emitted for the bucket, and no branch, stage, commit, push or PR
\* command is run for them.
C6_NoRepoBucket ==
    /\ \A gi \in 1..Len(lu.repo_writes) :
         \A w \in 1..Len(lu.repo_writes[gi].writes) :
             (lu.repo_writes[gi].root = NoRepo) <=>
                 NoGitAncestor(lu.repo_writes[gi].writes[w].path)
    /\ \A k \in 1..Len(cmds) :
         /\ cmds[k].root # NoRepo
         /\ cmds[k].cmd = "add" => ~NoGitAncestor(cmds[k].arg)
    /\ \A gi \in 1..Len(lu.repo_writes) :
         (lu.repo_writes[gi].root = NoRepo /\ (gi < lu.i \/ lu.pc = "done")) =>
             /\ \A w \in 1..Len(lu.repo_writes[gi].writes) :
                  /\ lu.repo_writes[gi].writes[w].path \in Written
                  /\ disk[lu.repo_writes[gi].writes[w].path] =
                        lu.repo_writes[gi].writes[w].content
             /\ \E n \in 1..Len(lu.notes) :
                  /\ lu.notes[n].kind = "outside any git repo"
                  /\ lu.notes[n].severity = "warning"
                  /\ lu.notes[n].subject = Len(lu.repo_writes[gi].writes)

\* a completed apply run that wrote the no-repository bucket and ran the
\* workflow of a repository
C6_Witness ==
    /\ lu.pc = "done"
    /\ cmds # <<>>
    /\ \E gi \in 1..Len(lu.repo_writes) :
         /\ lu.repo_writes[gi].root = NoRepo
         /\ disk[lu.repo_writes[gi].writes[1].path] # disk0[lu.repo_writes[gi].writes[1].path]

\* the identifiers used as the version of group:artifact in text for which
\* text holds no binding
Unresolved(text, group, artifact) ==
    {id \in Idents :
        /\ \E i \in 1..Len(text) :
             text[i].k = "ref" /\ text[i].g = group /\ text[i].a = artifact /\ text[i].id = id
        /\ \A i \in 1..Len(text) : ~(text[i].k = "val" /\ text[i].id = id)}

\* the files the scan reads
Scanned == {f \in Files : Eligible(f) /\ f \notin lu.unreadable}

\* the notified warnings about identifier id of group:artifact in file f
WarningNotes(f, id, key) ==
    {k \in 1..Len(lu.notes) :
        lu.notes[k] = Note("warning", "definition not found",
                           [file |-> f, warning |-> Warning(id, key[1], key[2])])}

\* the files the scan found changed
ChangedFiles ==
    {lu.diff_map[k].path : k \in 1..Len(lu.diff_map)}
    \cup UNION {{lu.repo_writes[gi].writes[w].path : w \in 1..Len(lu.repo_writes[gi].writes)} :
                  gi \in 1..Len(lu.repo_writes)}

\* text holds nothing of the libraries libs the rewriter can rewrite
NothingToRewrite(text, libs) ==
    \A k \in 1..Len(libs), i \in 1..Len(text) :
        /\ ~DirectMatch(text[i], libs[k].group, libs[k].artifact)
        /\ DepMatch(text[i], libs[k].group, libs[k].artifact) =>
               text[i].id \in Unresolved(text, libs[k].group, libs[k].artifact)

\* C13: an identifier used as the version of the target library without a
\* binding in the same text leaves the text unchanged, and each call of the
\* rewriter records exactly one warning that names the identifier and the
\* group:artifact; the run goes on to the remaining identifiers, libraries
\* and files, and when the scan has ended (before the first write of an apply
\* run) every such warning has been reported: one per scanned file, library
\* entry and unresolved identifier, and no other.
C13_UnresolvedWarned ==
    (lu.pc \notin {"idle", "raised"} /\ lu.written = <<>> /\ cmds = <<>>) =>
        /\ \A f \in Files, id \in Idents, a \in {ArtY, ArtZ} :
             Cardinality(WarningNotes(f, id, <<GroupX, a>>)) =
                IF f \in Scanned /\ id \in Unresolved(disk0[f], GroupX, a)
                THEN Cardinality({k \in 1..Len(lu.libs) : LibKey(lu.libs[k]) = <<GroupX, a>>})
                ELSE 0
        /\ \A f \in Scanned : NothingToRewrite(disk0[f], lu.libs) => f \notin ChangedFiles

\* an apply run in which a file with an unresolved and a resolved identifier
\* was rewritten at the resolved one, a later file was rewritten too, and the
\* warning of the unresolved identifier has been reported
C13_Witness ==
    /\ lu.pc = "write" /\ ~lu.preview
    /\ Unresolved(disk0[F2], GroupX, ArtY) = {"otherVersion"}
    /\ WarningNotes(F2, "otherVersion", <<GroupX, ArtY>>) # {}
    /\ {F2, F4} \subseteq ChangedFiles

(***************************************************************************)
(* The worker pool of the search-and-replace scan, checked under SpecFan   *)
(***************************************************************************)
Finished(t) == sr.tasks[t].st \in {"done", "raised"}

AddsOf(root) == {k \in 1..Len(cmds) : cmds[k].cmd = "add" /\ cmds[k].root = root}

\* the files written for a repository in this run
WrittenFor(root) ==
    {lu.written[i] : i \in {j \in 1..Len(lu.written) : find_git_root(lu.written[j]) = root}}

\* C23: the workflow stages exactly the changed files of its repository:
\* every stage command names one file written for that repository in this
\* run, no file is staged twice, and when the workflow commits, the files it
\* has staged are the files written for the repository.
C23_StagesExactlyChanged ==
    /\ \A k \in 1..Len(cmds) :
         cmds[k].cmd = "add" =>
            /\ cmds[k].arg \in WrittenFor(cmds[k].root)
            /\ \A m \in AddsOf(cmds[k].root) : cmds[m].arg = cmds[k].arg => m = k
    /\ \A k \in 1..Len(cmds) :
         cmds[k].cmd = "commit" =>
            {cmds[m].arg : m \in {j \in AddsOf(cmds[k].root) : j < k}} = WrittenFor(cmds[k].root)

\* a workflow that committed after it staged the two changed files of w/r1,
\* in a run that left a file of another repository as it was
C23_Witness ==
    \E k \in 1..Len(cmds) :
        /\ cmds[k].cmd = "commit"
        /\ Cardinality(AddsOf(cmds[k].root)) = 2
        /\ disk[F4] = disk0[F4]

(***************************************************************************)
(* process_file on one file, checked under SpecFile                        *)
(***************************************************************************)
\* the operations of the call
FileOps == align_tokens(tokenize(pf.search), tokenize(pf.replace))

\* the token-for-token replace operations whose old token occurs in the file
TokenOps ==
    {n \in 1..Len(FileOps) :
        /\ FileOps[n].tag = "replace" /\ ~FileOps[n].is_list
        /\ find(pf.content, FileOps[n].old, 0) # -1}

\* the first occurrence of the old token of operation n in the file text
SpanStart(n) == find(pf.content, FileOps[n].old, 0)

SpanEnd(n) == SpanStart(n) + Len(FileOps[n].old)

SpansDisjoint ==
    \A n, m \in TokenOps : n # m => SpanEnd(n) <= SpanStart(m) \/ SpanEnd(m) <= SpanStart(n)

\* text with the spans of the operations S replaced by their new tokens, from
\* the rightmost span to the leftmost
RECURSIVE spans_replaced(_, _)
spans_replaced(text, S) ==
    IF S = {} THEN text
    ELSE LET n == CHOOSE x \in S : \A y \in S : SpanStart(y) <= SpanStart(x)
         IN  spans_replaced(Slice(text, 0, SpanStart(n)) \o FileOps[n].new
                              \o Slice(text, SpanEnd(n), Len(text)),
                            S \ {n})

\* a minimal-diff apply call that wrote the file
MinimalWrote ==
    /\ pf.pc = "ended" /\ pf.minimal_diff /\ ~pf.preview
    /\ pf.out.raised = NoError /\ pf.out.written # None

\* C24: minimal-diff application: for each token-for-token replace operation
\* the first occurrence of the old token in the file text is replaced by the
\* new token and every character outside the replaced spans is unchanged and
\* in its order, also with several replace operations and with a new token
\* of another length than its old token.
C24_MinimalDiffApplied ==
    (MinimalWrote /\ SpansDisjoint) => pf.out.written = spans_replaced(pf.content, TokenOps)

\* the file holds the search text (lines 168-173)
MinimalMatches ==
    /\ find(remove_ws(pf.content), remove_ws(pf.search), 0) # -1
    /\ find_token_positions(pf.content, tokenize(pf.search)).found
    /\ find_token_positions(pf.content, tokenize(pf.search)).positions # <<>>

\* a replace run whose source and target sub-runs differ in length
UnequalRun == \E n \in 1..Len(FileOps) : FileOps[n].tag = "replace" /\ FileOps[n].is_list

\* C25: for a replace run whose source and target token sub-runs have
\* different lengths, processing the search/replace pair on a file that holds
\* the search text completes and yields a result with the replaced text.
C25_UnequalRunsReplaced ==
    (pf.pc = "ended" /\ pf.minimal_diff /\ UnequalRun /\ MinimalMatches) =>
        /\ pf.out.raised = NoError
        /\ ~pf.out.result.none

(***************************************************************************)
(* What a workflow announces, checked under Spec                           *)
(***************************************************************************)
\* the versions text holds for the library's group and artifact: the version
\* of each literal site, and the version bound to each identifier a site
\* refers to
versions_of(text, lib) ==
    {text[i].v : i \in {j \in 1..Len(text) : DirectMatch(text[j], lib.group, lib.artifact)}}
    \cup {text[val_search(text, id)].v :
            id \in {d \in var_names_of(text, lib.group, lib.artifact) : val_search(text, d) # 0}}

\* the files of the workflow in progress hold the library at the version
\* the workflow announces
AnnouncedIsWritten(lib) ==
    \E k \in 1..Len(lu.wf.files) : lib.version \in versions_of(disk[lu.wf.files[k]], lib)

\* C27: for every repository workflow, each library named in the branch name,
\* the commit message and the PR body is a library with a site in the files
\* written for that repository in this run, and the version announced for it
\* is the version those files hold after the run, also when the input holds
\* two lines with the same group:artifact and different versions.
C27_AnnouncedIsWritten ==
    lu.pc \in WorkflowPcs =>
        \A x \in 1..Len(lu.wf.libs) : AnnouncedIsWritten(lu.wf.libs[x])

(***************************************************************************)
(* The occurrences of full-replace mode, checked under SpecFile            *)
(***************************************************************************)
\* an ended call of process_file in full-replace mode without regex that
\* found the search text
FullReplaced == pf.pc = "ended" /\ ~pf.minimal_diff /\ ~pf.use_regex /\ ~pf.out.result.none

\* the occurrences the call found, as spans of the text without white space
Occurrences == find_matches(pf.content, pf.search, FALSE)

NonOverlapping ==
    \A i, j \in 1..Len(Occurrences) : i < j => Occurrences[i][2] <= Occurrences[j][1]

\* the span of the n-th occurrence in the text of the file
OccStart(n) == build_index_reverse_map(pf.content)[Occurrences[n][1] + 1]

OccEnd(n) == build_index_reverse_map(pf.content)[Occurrences[n][2]] + 1

\* the text of the file from position pos on with the occurrences from the
\* n-th on replaced, one after the other from the left
RECURSIVE occurrences_replaced(_, _)
occurrences_replaced(n, pos) ==
    IF n > Len(Occurrences) THEN Slice(pf.content, pos, Len(pf.content))
    ELSE Slice(pf.content, pos, OccStart(n)) \o pf.replace
         \o occurrences_replaced(n + 1, OccEnd(n))

\* C28: in full-replace mode without regex the matches found in one file are
\* pairwise non-overlapping, the text written in apply mode is the text read
\* with each occurrence replaced by the replacement text and everything
\* outside the occurrences unchanged, and replacements is the number of
\* occurrences.
C28_DistinctOccurrences ==
    FullReplaced =>
        /\ NonOverlapping
        /\ (NonOverlapping /\ ~pf.preview) => pf.out.written = occurrences_replaced(1, 0)
        /\ pf.out.result.replacements = Len(Occurrences)

(***************************************************************************)
(* The files a scan reports, checked under Spec                            *)
(***************************************************************************)
\* every file in the diff map or in the writes of the library-upgrade scan
\* has a modified text that differs from the text the scan read
LuReportsChanged ==
    /\ \A k \in 1..Len(lu.diff_map) : lu.diff_map[k].modified # lu.diff_map[k].original
    /\ lu.pc = "write" =>
         \A i \in lu.i..Len(lu.repo_writes) : \A w \in 1..Len(lu.repo_writes[i].writes) :
            lu.repo_writes[i].writes[w].content # disk[lu.repo_writes[i].writes[w].path]

\* every result of the search-and-replace run is of a file whose text the
\* call changed: a diff with lines in preview mode, another content on disk
\* in apply mode
SrReportsChanged ==
    \A t \in 1..Len(sr.tasks) :
        ~sr.tasks[t].result.none =>
            IF sr.tasks[t].result.preview
            THEN sr.tasks[t].result.diff.lines # <<>>
            ELSE disk[sr.tasks[t].path] # disk0[sr.tasks[t].path]

\* the same for one call of process_file
FileReportsChanged ==
    (pf.pc = "ended" /\ ~pf.out.result.none) =>
        IF pf.out.result.preview
        THEN pf.out.result.diff.lines # <<>>
        ELSE pf.out.written # pf.content

\* C26: a file with zero effective changes never appears in the results:
\* every file a scan reports, as a diff entry in preview mode or as a written
\* file in apply mode, has a modified text that differs from its original
\* text, in the library-upgrade scan and in both modes of the
\* search-and-replace scan.
C26_NoUnchangedFileReported == LuReportsChanged /\ SrReportsChanged /\ FileReportsChanged

(***************************************************************************)
(* What the two modes match, checked under SpecModes                       *)
(***************************************************************************)
\* the library of the mode that ran last
LastLib == rw.libs[IF rw.mode = "variable" THEN rw.k - 1 ELSE rw.k]

\* the matches of pattern (line 53) in text: each site with the version it
\* captures
direct_matches(text, lib) ==
    {<<i, text[i].v>> : i \in {j \in 1..Len(text) : DirectMatch(text[j], lib.group, lib.artifact)}}

\* the matches of dep_pattern (line 108) in text, and for each identifier the
\* match of val_pattern (line 127) with the version it captures
variable_matches(text, lib) ==
    [sites |-> {j \in 1..Len(text) : DepMatch(text[j], lib.group, lib.artifact)},
     bindings |-> {<<id, val_search(text, id),
                     IF val_search(text, id) = 0 THEN NoStr ELSE text[val_search(text, id)].v>> :
                   id \in var_names_of(text, lib.group, lib.artifact)}]

\* C22: the direct-literal mode and the variable-indirection mode are applied
\* in sequence for a library, and what each of them matches is what it
\* matches in the original text of the file: the text a mode is given has
\* the matches of its pattern that the original text has, whatever the other
\* mode or an earlier step has rewritten.
C22_ModesScanOriginal ==
    /\ rw.mode = "direct" =>
         direct_matches(rw.given, LastLib) = direct_matches(rw.original, LastLib)
    /\ rw.mode = "variable" =>
         variable_matches(rw.given, LastLib) = variable_matches(rw.original, LastLib)

(***************************************************************************)
(* Ownership of files and repositories over several triggers, checked      *)
(* under SpecTriggers                                                      *)
(***************************************************************************)
\* the files whose process_file call is in progress in a run
InProgress(run) == {t \in 1..Len(run.tasks) : run.tasks[t].st = "running"}

\* C21: exclusive ownership: over any sequence of Preview/Apply triggers, at
\* every moment each file is being processed by at most one worker and each
\* repository has at most one git workflow in progress.
C21_ExclusiveOwnership ==
    /\ \A t, u \in InProgress(sr) : sr.tasks[t].path = sr.tasks[u].path => t = u
    /\ \A t \in InProgress(sr), u \in InProgress(parked.sr) :
         sr.tasks[t].path # parked.sr.tasks[u].path
    /\ (lu.pc \in WorkflowPcs /\ parked.lu.pc \in WorkflowPcs) =>
         lu.wf.root # parked.lu.wf.root

(***************************************************************************)
(* The result list of the search-and-replace scan, checked under Spec      *)
(***************************************************************************)
\* process_file on the file as the tree held it before the run
sequential_result(path) ==
    process_file(path, disk0[path], path \notin sr.unreadable, path \notin sr.unwritable,
                 sr.search, sr.replace, sr.use_regex, sr.preview, sr.minimal_diff).result

\* the results of the eligible files processed one after the other, in the
\* order of the tasks, without the files that gave None
RECURSIVE sequential_results(_, _)
sequential_results(tasks, n) ==
    IF n > Len(tasks) THEN <<>>
    ELSE (IF sequential_result(tasks[n].path).none THEN <<>>
          ELSE <<sequential_result(tasks[n].path)>>)
         \o sequential_results(tasks, n + 1)

\* the place of a file in the directory walk
WalkIndex(path) == CHOOSE i \in 1..Len(SrWalkOrder) : SrWalkOrder[i] = path

\* C20: the result collection does not depend on the order in which the
\* workers complete: whatever the interleaving of the per-file workers, the
\* list a run returns is the list that processing the files of the tree one
\* after the other gives, its results are in directory-walk order, and it is
\* collected only when every worker has finished.
C20_StableResults ==
    sr.pc = "done" =>
        /\ \A t \in 1..Len(sr.tasks) : sr.tasks[t].st = "done"
        /\ sr.results = sequential_results(sr.tasks, 1)
        /\ \A i, j \in 1..Len(sr.results) :
             i < j => WalkIndex(sr.results[i].file) < WalkIndex(sr.results[j].file)

\* an apply run over three workers that returned the results of two files
C20_Witness ==
    /\ sr.pc = "done" /\ ~sr.preview
    /\ Len(sr.tasks) = 3
    /\ Len(sr.results) >= 2
    /\ \E t \in 1..Len(sr.tasks) : disk[sr.tasks[t].path] # disk0[sr.tasks[t].path]

(***************************************************************************)
(* Preview runs of the two scans, checked under Spec                       *)
(***************************************************************************)
\* the values the tasks of the search-and-replace run hold so far
SrReturned == {sr.tasks[t].result : t \in {u \in 1..Len(sr.tasks) : ~sr.tasks[u].result.none}}

\* C7: in preview mode no file on disk is written and no git or PR command is
\* run: in a library-upgrade run and in a search-and-replace run (full and
\* minimal-diff modes) with preview set, at every point of the run every file
\* holds the content it had before the run, and only diffs are produced.
C7_PreviewWritesNothing ==
    /\ (lu.pc # "idle" /\ lu.preview) =>
         /\ disk = disk0
         /\ cmds = <<>>
         /\ lu.written = <<>> /\ lu.repo_writes = <<>> /\ lu.results = <<>>
    /\ (sr.pc # "idle" /\ sr.preview) =>
         /\ disk = disk0
         /\ cmds = <<>>
         /\ \A r \in SrReturned : r.preview /\ r.diff.present

\* a completed search-and-replace preview in minimal-diff mode that reports two
\* files and shows the changed lines of the first
C7_Witness ==
    /\ sr.pc = "done" /\ sr.preview /\ sr.minimal_diff
    /\ Len(sr.results) >= 2
    /\ sr.shown.present /\ sr.shown.lines # <<>>
    /\ disk = disk0

====
